---- MODULE Spec2Model ----
(***************************************************************************)
(* Model of root_ext::StackedPlotDescriptor (Print/include/                *)
(* StackedPlotDescriptor.h) and of plotting::HistogramToGraph              *)
(* (Print/include/RootPrintTools.h), with root_ext::PdfPrinter,            *)
(* root_ext::HistogramRangeTuner, ShapeSync::GetCommonDirs and the parser  *)
(* of analysis::SyncPlotEntry, each exercised by a specification of its    *)
(* own.                                                                    *)
(*                                                                         *)
(* Objects live in a heap (address -> object); shared_ptr / raw pointers   *)
(* are addresses, so that copying and aliasing are distinguishable.        *)
(* Floating point quantities are integers: histogram contents are chosen   *)
(* so that every division the code performs on them is exact, and the      *)
(* fractional layout constants of draw_options::Page are in thousandths.   *)
(* Statistical errors are kept as the sum of squared weights (TH1::fSumw2).*)
(* A std::string built by concatenation is a sequence of its fragments.    *)
(***************************************************************************)
EXTENDS Integers, Sequences, FiniteSets, TLC

VARIABLES
    descriptor,   \* the StackedPlotDescriptor object, or None when there is none
    heap,         \* address -> object: histograms, stacks and graphs alive
    call,         \* the call made last, with its by-value arguments
    thrown,       \* message of the exception that call threw, or NoException
    pads,         \* what that call did to the pads and the legend it was given,
                  \* in the order in which it did it (Draw only)
    legend,       \* entries that call added to the legend it was given
    plot_items,   \* the plot_items list that call was given, as it left it
    graph_in,     \* HistogramToGraph exercised alone: its arguments
    graph_out,    \* HistogramToGraph exercised alone: the graph returned
    printer,      \* the PdfPrinter object, or None when there is none
    canvas,       \* the TCanvas of the printer
    output_file,  \* what TCanvas::Print has been asked to write, in order
    shape_sync,   \* the ShapeSync object, or None when there is none
    common_dirs,  \* what its GetCommonDirs returned, or None
    tuner,        \* the HistogramRangeTuner object, or None when there is none
    plot_entry    \* the SyncPlotEntry that operator >> was given, as it left it

\* the variables of the components other than the stacked-plot descriptor
\* and HistogramToGraph
other_vars == <<printer, canvas, output_file, shape_sync, common_dirs, tuner, plot_entry>>

vars == <<descriptor, heap, call, thrown, pads, legend, plot_items, graph_in, graph_out,
          other_vars>>

NULL == <<>>                  \* the null pointer (addresses are non-empty tuples)
None == [none |-> TRUE]       \* no object / an empty boost::optional
NoException == "no exception"

(***************************************************************************)
(* Bounds of the model.                                                    *)
(***************************************************************************)
MaxHists == 3        \* signal and background histograms added to a descriptor
MaxBins == 3         \* bins of a histogram given to HistogramToGraph alone
MaxBlind == 2        \* blind ranges given to HistogramToGraph alone

(***************************************************************************)
(* Small helpers.                                                          *)
(***************************************************************************)
Elems(s) == {s[i] : i \in DOMAIN s}

Reverse(s) == [i \in 1..Len(s) |-> s[Len(s) + 1 - i]]

\* f with key k (re)bound to v
Store(f, k, v) == [a \in DOMAIN f \cup {k} |-> IF a = k THEN v ELSE f[a]]

\* f without the keys in ks
Drop(f, ks) == [a \in DOMAIN f \ ks |-> f[a]]

(***************************************************************************)
(* Color::GetColor_t: a colour as the ROOT colour index.                   *)
(***************************************************************************)
GetColor_t(color) ==
    CASE color = "kWhite" -> 0
      [] color = "kBlack" -> 1
      [] color = "kRed" -> 632
      [] color = "kBlue" -> 600
      [] color = "kGreen" -> 416

(***************************************************************************)
(* draw_options::Histogram.  The defaults are the member initialisers;     *)
(* HistOptions(item) reads each property the configuration item sets and   *)
(* keeps the default of the others.                                        *)
(***************************************************************************)
DefaultHistOptions ==
    [ fill_style |-> 0, line_style |-> 2, legend_style |-> "f",
      draw_unc |-> FALSE, unc_hist |-> "",
      fill_color |-> "kWhite", line_color |-> "kBlack",
      draw_opt |-> "", line_width |-> 2,
      marker_style |-> 20, marker_size |-> 1, marker_color |-> "kBlack",
      legend_title |-> "", blind |-> FALSE ]

HistOptions(item) ==
    [ p \in DOMAIN DefaultHistOptions |->
        IF p \in DOMAIN item THEN item[p] ELSE DefaultHistOptions[p] ]

\* draw_options::Histogram::DrawUnc
DrawUnc(opt) == opt.draw_unc

(***************************************************************************)
(* draw_options::Page as default-constructed (lengths in thousandths).     *)
(***************************************************************************)
DefaultPage ==
    [ x_title |-> "", y_title |-> "",
      divide_by_bin_width |-> FALSE, log_x |-> FALSE, log_y |-> FALSE,
      y_max_sf |-> 1200,
      axis_title_sizes |-> [x |-> 5, y |-> 5],
      axis_title_offsets |-> [x |-> 1000, y |-> 1000],
      axis_label_sizes |-> [x |-> 40, y |-> 40],
      axis_label_offsets |-> [x |-> 15, y |-> 5],
      ratio_y_title |-> "Ratio", ratio_y_title_size |-> 5, ratio_y_title_offset |-> 1000,
      ratio_y_label_size |-> 40, ratio_y_label_offset |-> 5, ratio_n_div_y |-> 505,
      ratio_pad_size_sf |-> 3 ]

\* draw_options::Page::GetRatioPadSizeSF
GetRatioPadSizeSF(page_opt) == page_opt.ratio_pad_size_sf

(***************************************************************************)
(* The configuration sections a caller may pass to the constructor.        *)
(***************************************************************************)
SectionNames == {"sgn_hist", "bkg_hist", "data_hist", "bkg_unc"}

SectionItem(name, draw_unc, blind) ==
    CASE name = "sgn_hist" ->
            [draw_opt |-> "HIST", legend_style |-> "L", line_width |-> 3]
      [] name = "bkg_hist" ->
            [draw_opt |-> "HIST", legend_style |-> "F", fill_style |-> 1001,
             draw_unc |-> draw_unc, unc_hist |-> "bkg_unc"]
      [] name = "data_hist" ->
            [draw_opt |-> "PE0", legend_style |-> "PLE", blind |-> blind]
      [] name = "bkg_unc" ->
            [draw_opt |-> "e2", legend_style |-> "f", fill_style |-> 3013,
             fill_color |-> "kBlack", legend_title |-> "Bkg. uncertainty"]

ItemCollections ==
    { [name \in present |-> SectionItem(name, draw_unc, blind)] :
        present \in SUBSET SectionNames, draw_unc \in BOOLEAN, blind \in BOOLEAN }

(***************************************************************************)
(* StackedPlotDescriptor::StackedPlotDescriptor.  The result is the        *)
(* exception thrown and the object constructed; a constructor that throws  *)
(* leaves no object.                                                       *)
(***************************************************************************)
MsgNoSignalOpt == "Options to draw signal histograms not found."
MsgNoBkgOpt == "Options to draw background histograms not found."
MsgNoDataOpt == "Options to draw data histogram not found."
MsgNoUncOpt == "Options to draw background uncertainties not found."

\* the words of a message of the constructor
Words(msg) ==
    CASE msg = MsgNoSignalOpt ->
            <<"Options", "to", "draw", "signal", "histograms", "not", "found.">>
      [] msg = MsgNoBkgOpt ->
            <<"Options", "to", "draw", "background", "histograms", "not", "found.">>
      [] msg = MsgNoDataOpt ->
            <<"Options", "to", "draw", "data", "histogram", "not", "found.">>
      [] msg = MsgNoUncOpt ->
            <<"Options", "to", "draw", "background", "uncertainties", "not", "found.">>
      [] OTHER -> <<>>

Thrown(msg) == [thrown |-> msg, object |-> None]

Constructed(page, sgn, bkg, dat, unc) ==
    [ thrown |-> NoException,
      object |-> [ signals |-> <<>>, backgrounds |-> <<>>, data |-> NULL,
                   page_opt |-> page,
                   signal_opt |-> sgn, bkg_opt |-> bkg, data_opt |-> dat,
                   bkg_unc_opt |-> unc ] ]

\* Mutant: a missing "data_hist" section is not an error, the defaults are used.
StackedPlotDescriptor_DataOptional(_page_opt, opt_items) ==
    IF "sgn_hist" \notin DOMAIN opt_items THEN Thrown(MsgNoSignalOpt)
    ELSE LET signal_opt == HistOptions(opt_items["sgn_hist"]) IN
    IF "bkg_hist" \notin DOMAIN opt_items THEN Thrown(MsgNoBkgOpt)
    ELSE LET bkg_opt == HistOptions(opt_items["bkg_hist"])
             data_opt == IF "data_hist" \in DOMAIN opt_items
                         THEN HistOptions(opt_items["data_hist"])
                         ELSE DefaultHistOptions
    IN
    IF DrawUnc(bkg_opt)
    THEN IF bkg_opt.unc_hist \notin DOMAIN opt_items THEN Thrown(MsgNoUncOpt)
         ELSE Constructed(_page_opt, signal_opt, bkg_opt, data_opt,
                          HistOptions(opt_items[bkg_opt.unc_hist]))
    ELSE Constructed(_page_opt, signal_opt, bkg_opt, data_opt, None)

\* Mutant: a missing uncertainty section is not an error, the band is left out.
StackedPlotDescriptor_UncOptional(_page_opt, opt_items) ==
    IF "sgn_hist" \notin DOMAIN opt_items THEN Thrown(MsgNoSignalOpt)
    ELSE LET signal_opt == HistOptions(opt_items["sgn_hist"]) IN
    IF "bkg_hist" \notin DOMAIN opt_items THEN Thrown(MsgNoBkgOpt)
    ELSE LET bkg_opt == HistOptions(opt_items["bkg_hist"]) IN
    IF "data_hist" \notin DOMAIN opt_items THEN Thrown(MsgNoDataOpt)
    ELSE LET data_opt == HistOptions(opt_items["data_hist"]) IN
    IF DrawUnc(bkg_opt) /\ bkg_opt.unc_hist \in DOMAIN opt_items
    THEN Constructed(_page_opt, signal_opt, bkg_opt, data_opt,
                     HistOptions(opt_items[bkg_opt.unc_hist]))
    ELSE Constructed(_page_opt, signal_opt, bkg_opt, data_opt, None)

\* Mutant: the exception for a missing "data_hist" section carries the message
\* of the background section.
StackedPlotDescriptor_WrongMessage(_page_opt, opt_items) ==
    IF "sgn_hist" \notin DOMAIN opt_items THEN Thrown(MsgNoSignalOpt)
    ELSE LET signal_opt == HistOptions(opt_items["sgn_hist"]) IN
    IF "bkg_hist" \notin DOMAIN opt_items THEN Thrown(MsgNoBkgOpt)
    ELSE LET bkg_opt == HistOptions(opt_items["bkg_hist"]) IN
    IF "data_hist" \notin DOMAIN opt_items THEN Thrown(MsgNoBkgOpt)
    ELSE LET data_opt == HistOptions(opt_items["data_hist"]) IN
    IF DrawUnc(bkg_opt)
    THEN IF bkg_opt.unc_hist \notin DOMAIN opt_items THEN Thrown(MsgNoUncOpt)
         ELSE Constructed(_page_opt, signal_opt, bkg_opt, data_opt,
                          HistOptions(opt_items[bkg_opt.unc_hist]))
    ELSE Constructed(_page_opt, signal_opt, bkg_opt, data_opt, None)

StackedPlotDescriptor(_page_opt, opt_items) ==
    IF "sgn_hist" \notin DOMAIN opt_items THEN Thrown(MsgNoSignalOpt)
    ELSE LET signal_opt == HistOptions(opt_items["sgn_hist"]) IN
    IF "bkg_hist" \notin DOMAIN opt_items THEN Thrown(MsgNoBkgOpt)
    ELSE LET bkg_opt == HistOptions(opt_items["bkg_hist"]) IN
    IF "data_hist" \notin DOMAIN opt_items THEN Thrown(MsgNoDataOpt)
    ELSE LET data_opt == HistOptions(opt_items["data_hist"]) IN
    IF DrawUnc(bkg_opt)
    THEN IF bkg_opt.unc_hist \notin DOMAIN opt_items THEN Thrown(MsgNoUncOpt)
         ELSE Constructed(_page_opt, signal_opt, bkg_opt, data_opt,
                          HistOptions(opt_items[bkg_opt.unc_hist]))
    ELSE Constructed(_page_opt, signal_opt, bkg_opt, data_opt, None)

(***************************************************************************)
(* Histograms (SmartHistogram<TH1D>).  The axis has the low edges          *)
(* edges[1..n] and the upper edge edges[n+1].                              *)
(***************************************************************************)
GetNbinsX(h) == Len(h.edges) - 1
GetBinLowEdge(h, bin) == h.edges[bin]
GetBinWidth(h, bin) == h.edges[bin + 1] - h.edges[bin]
GetBinCenter(h, bin) == (h.edges[bin] + h.edges[bin + 1]) \div 2
GetBinContent(h, bin) == h.content[bin]

\* analysis::Range with its boundaries, and the blind ranges of a histogram
MakeRange(min, max, boundaries) == [min |-> min, max |-> max, boundaries |-> boundaries]

\* TAxis as ROOT creates it (sizes and offsets in thousandths)
DefaultAxis ==
    [title |-> "", title_size |-> 35, title_offset |-> 1000,
     label_size |-> 35, label_offset |-> 5]

\* TAttFill, TAttLine, TAttMarker as ROOT creates them
DefaultAtt ==
    [ fill_style |-> 1001, fill_color |-> 0,
      line_style |-> 1, line_width |-> 1, line_color |-> 602,
      marker_style |-> 1, marker_size |-> 1, marker_color |-> 1 ]

NewHist(content, sumw2, divide, log_x, log_y, y_sf, x_title, y_title, blind) ==
    [ type |-> "Hist", edges |-> <<0, 2, 6>>, content |-> content, sumw2 |-> sumw2,
      binErrorOption |-> "kNormal", title |-> "hist",
      xaxis |-> DefaultAxis, yaxis |-> DefaultAxis,
      fill_style |-> DefaultAtt.fill_style, fill_color |-> DefaultAtt.fill_color,
      line_style |-> DefaultAtt.line_style, line_width |-> DefaultAtt.line_width,
      line_color |-> DefaultAtt.line_color, marker_style |-> DefaultAtt.marker_style,
      marker_size |-> DefaultAtt.marker_size, marker_color |-> DefaultAtt.marker_color,
      legend_title |-> "",
      use_log_x |-> log_x, use_log_y |-> log_y, max_y_sf |-> y_sf,
      x_title |-> x_title, y_title |-> y_title,
      divide_by_bin_width |-> divide, blind_ranges |-> blind ]

\* The histograms the caller owns, fills with weights and passes to the Add*
\* methods: every content is a multiple of its bin's width and every sumw2 a
\* square whose root is one too, so that the divisions by bin width are exact.
CallerHists ==
    << NewHist(<<10, 20>>, <<4, 16>>, FALSE, FALSE, FALSE, 1200, "m_A", "Events", {}),
       NewHist(<<16, 32>>, <<64, 256>>, TRUE, TRUE, TRUE, 2000, "m_B", "dN/dm",
               {MakeRange(0, 1, "Both")}) >>

OrigAddr(i) == <<"orig", i>>
Originals == {OrigAddr(i) : i \in DOMAIN CallerHists}

\* TH1::Scale
Scale(h, c) ==
    [h EXCEPT !.content = [i \in DOMAIN h.content |-> h.content[i] * c],
              !.sumw2 = [i \in DOMAIN h.sumw2 |-> h.sumw2[i] * c * c]]

\* root_ext::DivideByBinWidth
DivideByBinWidth(h) ==
    [h EXCEPT !.content = [i \in DOMAIN h.content |-> h.content[i] \div GetBinWidth(h, i)],
              !.sumw2 = [i \in DOMAIN h.sumw2 |->
                            h.sumw2[i] \div (GetBinWidth(h, i) * GetBinWidth(h, i))]]

\* TH1::Add(h1, 1.)
Add(h, h1) ==
    [h EXCEPT !.content = [i \in DOMAIN h.content |-> h.content[i] + h1.content[i]],
              !.sumw2 = [i \in DOMAIN h.sumw2 |-> h.sumw2[i] + h1.sumw2[i]]]

SetBinErrorOption(h, option) == [h EXCEPT !.binErrorOption = option]

\* TH1::GetBinError, the root of the sum of squared weights
ISqrt(n) == CHOOSE r \in 0..n : r * r <= n /\ (r + 1) * (r + 1) > n

\* TH1::GetBinErrorLow / GetBinErrorUp: for a histogram filled with weights
\* both are GetBinError, whatever the bin error option
GetBinErrorLow(h, bin) == ISqrt(h.sumw2[bin])
GetBinErrorUp(h, bin) == ISqrt(h.sumw2[bin])

(***************************************************************************)
(* analysis::Range and analysis::MultiRange.                               *)
(***************************************************************************)
Max(a, b) == IF a >= b THEN a ELSE b
Min(a, b) == IF a <= b THEN a ELSE b

Contains(r, v) ==
    /\ v > r.min \/ (v = r.min /\ r.boundaries \in {"MinIncluded", "Both"})
    /\ v < r.max \/ (v = r.max /\ r.boundaries \in {"MaxIncluded", "Both"})

RangeOverlaps(r, other) ==
    LET lo == Max(r.min, other.min)
        hi == Min(r.max, other.max)
    IN lo < hi \/ (lo = hi /\ Contains(r, lo) /\ Contains(other, lo))

Overlaps(multi_range, r) == \E x \in multi_range : RangeOverlaps(x, r)

(***************************************************************************)
(* plotting::HistogramToGraph.  The loop over the bins, from bin to the    *)
(* last one, pushing to the vectors in g; n is the number of points so far.*)
(***************************************************************************)
EmptyVectors == [x |-> <<>>, y |-> <<>>, exl |-> <<>>, exh |-> <<>>, eyl |-> <<>>, eyh |-> <<>>]

\* Mutant: a blinded bin is emitted with zero content and errors, not skipped.
RECURSIVE HistogramToGraphLoop_Zeroed(_, _, _, _, _)
HistogramToGraphLoop_Zeroed(hist, divide_by_bin_width, blind_ranges, bin, g) ==
    IF bin > GetNbinsX(hist) THEN g
    ELSE
    LET bin_range == MakeRange(GetBinLowEdge(hist, bin), GetBinLowEdge(hist, bin + 1),
                               "MinIncluded")
        blinded == Overlaps(blind_ranges, bin_range)
        x == GetBinCenter(hist, bin)
        bin_width == IF divide_by_bin_width THEN GetBinWidth(hist, bin) ELSE 1
        pushed == [ x |-> Append(g.x, x),
                    exl |-> Append(g.exl, x - GetBinLowEdge(hist, bin)),
                    exh |-> Append(g.exh, GetBinLowEdge(hist, bin + 1) - x),
                    y |-> Append(g.y, IF blinded THEN 0
                                      ELSE GetBinContent(hist, bin) \div bin_width),
                    eyl |-> Append(g.eyl, IF blinded THEN 0
                                          ELSE GetBinErrorLow(hist, bin) \div bin_width),
                    eyh |-> Append(g.eyh, IF blinded THEN 0
                                          ELSE GetBinErrorUp(hist, bin) \div bin_width) ]
    IN HistogramToGraphLoop_Zeroed(hist, divide_by_bin_width, blind_ranges, bin + 1, pushed)

RECURSIVE HistogramToGraphLoop(_, _, _, _, _)
HistogramToGraphLoop(hist, divide_by_bin_width, blind_ranges, bin, g) ==
    IF bin > GetNbinsX(hist) THEN g
    ELSE
    LET bin_range == MakeRange(GetBinLowEdge(hist, bin), GetBinLowEdge(hist, bin + 1),
                               "MinIncluded")
    IN IF Overlaps(blind_ranges, bin_range)
       THEN HistogramToGraphLoop(hist, divide_by_bin_width, blind_ranges, bin + 1, g)
       ELSE
       LET x == GetBinCenter(hist, bin)
           bin_width == GetBinWidth(hist, bin)
           y == GetBinContent(hist, bin)
           eyl == GetBinErrorLow(hist, bin)
           eyh == GetBinErrorUp(hist, bin)
           pushed == [ x |-> Append(g.x, x),
                       exl |-> Append(g.exl, x - GetBinLowEdge(hist, bin)),
                       exh |-> Append(g.exh, GetBinLowEdge(hist, bin + 1) - x),
                       y |-> Append(g.y, IF divide_by_bin_width THEN y \div bin_width ELSE y),
                       eyl |-> Append(g.eyl, IF divide_by_bin_width
                                             THEN eyl \div bin_width ELSE eyl),
                       eyh |-> Append(g.eyh, IF divide_by_bin_width
                                             THEN eyh \div bin_width ELSE eyh) ]
       IN HistogramToGraphLoop(hist, divide_by_bin_width, blind_ranges, bin + 1, pushed)

\* The TGraphAsymmErrors made from the vectors
HistogramToGraph(hist, divide_by_bin_width, blind_ranges) ==
    LET g == HistogramToGraphLoop(hist, divide_by_bin_width, blind_ranges, 1, EmptyVectors)
    IN [ type |-> "Graph", n |-> Len(g.x),
         x |-> g.x, y |-> g.y, exl |-> g.exl, exh |-> g.exh, eyl |-> g.eyl, eyh |-> g.eyh,
         title |-> "graph", xaxis |-> DefaultAxis, yaxis |-> DefaultAxis,
         fill_style |-> DefaultAtt.fill_style, fill_color |-> DefaultAtt.fill_color,
         line_style |-> DefaultAtt.line_style, line_width |-> DefaultAtt.line_width,
         line_color |-> DefaultAtt.line_color, marker_style |-> DefaultAtt.marker_style,
         marker_size |-> DefaultAtt.marker_size, marker_color |-> DefaultAtt.marker_color ]

(***************************************************************************)
(* StackedPlotDescriptor: private helpers.                                 *)
(***************************************************************************)
\* Mutant: the options are taken from a histogram only while no title is set,
\* so that the first histogram prepared decides them.
UpdatePageOptions_FirstOnly(page_opt, hist) ==
    IF page_opt.x_title # "" THEN page_opt
    ELSE [page_opt EXCEPT !.log_x = hist.use_log_x,
                          !.log_y = hist.use_log_y,
                          !.y_max_sf = hist.max_y_sf,
                          !.x_title = hist.x_title,
                          !.y_title = hist.y_title,
                          !.divide_by_bin_width = hist.divide_by_bin_width]

UpdatePageOptions(page_opt, hist) ==
    [page_opt EXCEPT !.log_x = hist.use_log_x,
                     !.log_y = hist.use_log_y,
                     !.y_max_sf = hist.max_y_sf,
                     !.x_title = hist.x_title,
                     !.y_title = hist.y_title,
                     !.divide_by_bin_width = hist.divide_by_bin_width]

ApplyHistOptions(item, opt) ==
    [item EXCEPT !.fill_style = opt.fill_style,
                 !.fill_color = GetColor_t(opt.fill_color),
                 !.line_style = opt.line_style,
                 !.line_width = opt.line_width,
                 !.line_color = GetColor_t(opt.line_color),
                 !.marker_style = opt.marker_style,
                 !.marker_size = opt.marker_size,
                 !.marker_color = GetColor_t(opt.marker_color)]

ApplyHistOptionsEx(hist, opt) ==
    [ApplyHistOptions(hist, opt) EXCEPT !.legend_title = opt.legend_title]

\* Mutant: no copy is made, the pointer returned is the original.
MakeSharedCopy_Alias(mem, original, new) == [heap |-> mem, ptr |-> original]

\* std::make_shared<Hist>(original): a new object at address new, a copy of
\* the object at address original; the result is the heap and the pointer.
MakeSharedCopy(mem, original, new) == [heap |-> Store(mem, new, mem[original]), ptr |-> new]

\* Mutant: the copy is divided by bin width whatever its role, data included.
PrepareHistogram_DividesData(mem, page_opt, original_histogram, opt, legend_title, line_color, fill_color, is_data, new) ==
    LET made == MakeSharedCopy(mem, original_histogram, new)
        hist == made.ptr
        mem0 == IF is_data
                THEN [made.heap EXCEPT ![hist] = SetBinErrorOption(@, "kPoisson")]
                ELSE made.heap
        mem1 == IF mem0[hist].divide_by_bin_width
                THEN [mem0 EXCEPT ![hist] = DivideByBinWidth(@)]
                ELSE mem0
        opt_copy == [opt EXCEPT !.fill_color = fill_color,
                                !.line_color = line_color,
                                !.legend_title = legend_title]
        mem2 == [mem1 EXCEPT ![hist] = ApplyHistOptionsEx(@, opt_copy)]
    IN [heap |-> mem2, page_opt |-> UpdatePageOptions(page_opt, mem2[hist]), hist |-> hist]

\* PrepareHistogram, allocating the copy at address new.  The result is the
\* heap, the page options and the pointer returned.
PrepareHistogram(mem, page_opt, original_histogram, opt, legend_title, line_color, fill_color, is_data, new) ==
    LET made == MakeSharedCopy(mem, original_histogram, new)
        hist == made.ptr
        mem1 == IF is_data
                THEN [made.heap EXCEPT ![hist] = SetBinErrorOption(@, "kPoisson")]
                ELSE IF made.heap[hist].divide_by_bin_width
                     THEN [made.heap EXCEPT ![hist] = DivideByBinWidth(@)]
                     ELSE made.heap
        opt_copy == [opt EXCEPT !.fill_color = fill_color,
                                !.line_color = line_color,
                                !.legend_title = legend_title]
        mem2 == [mem1 EXCEPT ![hist] = ApplyHistOptionsEx(@, opt_copy)]
    IN [heap |-> mem2, page_opt |-> UpdatePageOptions(page_opt, mem2[hist]), hist |-> hist]

(***************************************************************************)
(* StackedPlotDescriptor: accumulation.  Each method takes the object and  *)
(* the heap and gives the exception thrown, the object and the heap after  *)
(* the call.  The copy a method stores is allocated at an address of its   *)
(* own, named after the list it goes to.                                   *)
(***************************************************************************)
MsgDuplicateData == "Only one data histogram per stack is supported."

AddSignalHistogram(this, mem, original_hist, legend_title, color, scale_factor) ==
    LET p == PrepareHistogram(mem, this.page_opt, original_hist, this.signal_opt,
                              legend_title, color, this.signal_opt.fill_color, FALSE,
                              <<"signal", Len(this.signals) + 1>>)
        mem1 == [p.heap EXCEPT ![p.hist] = Scale(@, scale_factor)]
    IN [ thrown |-> NoException, heap |-> mem1,
         object |-> [this EXCEPT !.page_opt = p.page_opt,
                                 !.signals = Append(@, p.hist)] ]

AddBackgroundHistogram(this, mem, original_hist, legend_title, color) ==
    LET p == PrepareHistogram(mem, this.page_opt, original_hist, this.bkg_opt,
                              legend_title, this.bkg_opt.line_color, color, FALSE,
                              <<"background", Len(this.backgrounds) + 1>>)
    IN [ thrown |-> NoException, heap |-> p.heap,
         object |-> [this EXCEPT !.page_opt = p.page_opt,
                                 !.backgrounds = Append(@, p.hist)] ]

\* Mutant: a second data histogram replaces the first.
AddDataHistogram_Replace(this, mem, original_hist, legend_title) ==
    LET p == PrepareHistogram(mem, this.page_opt, original_hist, this.data_opt,
                              legend_title, this.data_opt.line_color,
                              this.data_opt.fill_color, TRUE, <<"data", 1>>)
    IN [ thrown |-> NoException, heap |-> p.heap,
         object |-> [this EXCEPT !.page_opt = p.page_opt, !.data = p.hist] ]

AddDataHistogram(this, mem, original_hist, legend_title) ==
    IF this.data # NULL
    THEN [thrown |-> MsgDuplicateData, heap |-> mem, object |-> this]
    ELSE LET p == PrepareHistogram(mem, this.page_opt, original_hist, this.data_opt,
                                   legend_title, this.data_opt.line_color,
                                   this.data_opt.fill_color, TRUE, <<"data", 1>>)
         IN [ thrown |-> NoException, heap |-> p.heap,
              object |-> [this EXCEPT !.page_opt = p.page_opt, !.data = p.hist] ]

\* Mutant: the data histogram is not counted.
HasPrintableContent_NoData(this) ==
    Len(this.signals) # 0 \/ Len(this.backgrounds) # 0

HasPrintableContent(this) ==
    Len(this.signals) # 0 \/ Len(this.backgrounds) # 0 \/ this.data # NULL

(***************************************************************************)
(* StackedPlotDescriptor::CreateSumHistogram, allocating the sum at        *)
(* address new.  The result is the exception thrown, the heap and the      *)
(* pointer returned.                                                       *)
(***************************************************************************)
MsgEmptySum == "Unable to create sum histogram."

RECURSIVE SumLoop(_, _, _, _)
SumLoop(mem, sum_hist, hists, iter) ==
    IF iter > Len(hists) THEN mem
    ELSE SumLoop([mem EXCEPT ![sum_hist] = Add(@, mem[hists[iter]])], sum_hist, hists, iter + 1)

\* Mutant: the sum is accumulated in the first histogram itself, not in a copy.
CreateSumHistogram_InPlace(mem, hists, new) ==
    IF hists = <<>>
    THEN [thrown |-> MsgEmptySum, heap |-> mem, ptr |-> NULL]
    ELSE [thrown |-> NoException, heap |-> SumLoop(mem, hists[1], hists, 2),
          ptr |-> hists[1]]

CreateSumHistogram(mem, hists, new) ==
    IF hists = <<>>
    THEN [thrown |-> MsgEmptySum, heap |-> mem, ptr |-> NULL]
    ELSE LET made == MakeSharedCopy(mem, hists[1], new)
         IN [thrown |-> NoException, heap |-> SumLoop(made.heap, made.ptr, hists, 2),
             ptr |-> made.ptr]

(***************************************************************************)
(* plotting::CreateNormalizedUncertaintyHistogram and                      *)
(* plotting::CreateRatioGraph (values in thousandths).                     *)
(***************************************************************************)
CreateNormalizedUncertaintyHistogram(hist) ==
    [hist EXCEPT
        !.content = [i \in DOMAIN hist.content |-> IF hist.content[i] = 0 THEN 0 ELSE 1000],
        !.sumw2 = [i \in DOMAIN hist.sumw2 |->
                      IF hist.content[i] = 0 THEN 0
                      ELSE (1000 * 1000 * hist.sumw2[i]) \div (hist.content[i] * hist.content[i])]]

FindBin(hist, x) ==
    CHOOSE bin \in 1..GetNbinsX(hist) : hist.edges[bin] <= x /\ x < hist.edges[bin + 1]

CreateRatioGraph(graph, hist) ==
    LET den(k) == GetBinContent(hist, FindBin(hist, graph.x[k]))
        ratio(v, k) == IF den(k) = 0 THEN 0 ELSE (1000 * v[k]) \div den(k)
    IN [graph EXCEPT !.y = [k \in DOMAIN graph.y |-> ratio(graph.y, k)],
                     !.eyl = [k \in DOMAIN graph.y |-> ratio(graph.eyl, k)],
                     !.eyh = [k \in DOMAIN graph.y |-> ratio(graph.eyh, k)]]

(***************************************************************************)
(* StackedPlotDescriptor::DrawItem and DrawRatioItem.  st is the state of  *)
(* the Draw call in progress: the heap, the operations on the pads so far, *)
(* the first-draw flag of the phase and plot_items.                        *)
(***************************************************************************)
\* Mutant: the x axis is set from the page options also with a ratio pad.
DrawItem_XAxisShown(st, page_opt, item, draw_opt, has_ratio) ==
    IF st.first_draw
    THEN [st EXCEPT
            !.pads = Append(@, [op |-> "Draw", item |-> item, opt |-> <<draw_opt>>]),
            !.first_draw = FALSE,
            !.heap[item].yaxis =
                [ title |-> page_opt.y_title,
                  title_size |-> page_opt.axis_title_sizes.y,
                  title_offset |-> page_opt.axis_title_offsets.y,
                  label_size |-> page_opt.axis_label_sizes.y,
                  label_offset |-> page_opt.axis_label_offsets.y ],
            !.heap[item].xaxis =
                [ title |-> page_opt.x_title,
                  title_size |-> page_opt.axis_title_sizes.x,
                  title_offset |-> page_opt.axis_title_offsets.x,
                  label_size |-> page_opt.axis_label_sizes.x,
                  label_offset |-> page_opt.axis_label_offsets.x ]]
    ELSE [st EXCEPT
            !.pads = Append(@, [op |-> "Draw", item |-> item, opt |-> <<"SAME", draw_opt>>])]

\* Mutant: the first-draw flag is not cleared.
DrawItem_KeepsFirst(st, page_opt, item, draw_opt, has_ratio) ==
    IF st.first_draw
    THEN [st EXCEPT
            !.pads = Append(@, [op |-> "Draw", item |-> item, opt |-> <<draw_opt>>]),
            !.heap[item].yaxis =
                [ title |-> page_opt.y_title,
                  title_size |-> page_opt.axis_title_sizes.y,
                  title_offset |-> page_opt.axis_title_offsets.y,
                  label_size |-> page_opt.axis_label_sizes.y,
                  label_offset |-> page_opt.axis_label_offsets.y ],
            !.heap[item].xaxis =
                IF has_ratio
                THEN [ title |-> "", title_size |-> 0, title_offset |-> 0,
                       label_size |-> 0, label_offset |-> 0 ]
                ELSE [ title |-> page_opt.x_title,
                       title_size |-> page_opt.axis_title_sizes.x,
                       title_offset |-> page_opt.axis_title_offsets.x,
                       label_size |-> page_opt.axis_label_sizes.x,
                       label_offset |-> page_opt.axis_label_offsets.x ]]
    ELSE [st EXCEPT
            !.pads = Append(@, [op |-> "Draw", item |-> item, opt |-> <<"SAME", draw_opt>>])]

DrawItem(st, page_opt, item, draw_opt, has_ratio) ==
    IF st.first_draw
    THEN [st EXCEPT
            !.pads = Append(@, [op |-> "Draw", item |-> item, opt |-> <<draw_opt>>]),
            !.first_draw = FALSE,
            !.heap[item].yaxis =
                [ title |-> page_opt.y_title,
                  title_size |-> page_opt.axis_title_sizes.y,
                  title_offset |-> page_opt.axis_title_offsets.y,
                  label_size |-> page_opt.axis_label_sizes.y,
                  label_offset |-> page_opt.axis_label_offsets.y ],
            !.heap[item].xaxis =
                IF has_ratio
                THEN [ title |-> "", title_size |-> 0, title_offset |-> 0,
                       label_size |-> 0, label_offset |-> 0 ]
                ELSE [ title |-> page_opt.x_title,
                       title_size |-> page_opt.axis_title_sizes.x,
                       title_offset |-> page_opt.axis_title_offsets.x,
                       label_size |-> page_opt.axis_label_sizes.x,
                       label_offset |-> page_opt.axis_label_offsets.x ]]
    ELSE [st EXCEPT
            !.pads = Append(@, [op |-> "Draw", item |-> item, opt |-> <<"SAME", draw_opt>>])]

DrawRatioItem(st, page_opt, item, draw_opt) ==
    LET titled == [st EXCEPT !.heap[item].title = ""]
        sf == GetRatioPadSizeSF(page_opt)
    IN IF titled.first_draw
       THEN [titled EXCEPT
               !.pads = Append(@, [op |-> "Draw", item |-> item, opt |-> <<draw_opt>>]),
               !.first_draw = FALSE,
               !.heap[item].xaxis =
                   [ title |-> page_opt.x_title,
                     title_size |-> page_opt.axis_title_sizes.x * sf,
                     title_offset |-> page_opt.axis_title_offsets.x,
                     label_size |-> page_opt.axis_label_sizes.x * sf,
                     label_offset |-> page_opt.axis_label_offsets.x ],
               !.heap[item].yaxis =
                   [ title |-> page_opt.ratio_y_title,
                     title_size |-> page_opt.ratio_y_title_size * sf,
                     title_offset |-> page_opt.ratio_y_title_offset,
                     label_size |-> page_opt.ratio_y_label_size * sf,
                     label_offset |-> page_opt.ratio_y_label_offset,
                     n_divisions |-> page_opt.ratio_n_div_y ]]
       ELSE [titled EXCEPT
               !.pads = Append(@, [op |-> "Draw", item |-> item, opt |-> <<"SAME", draw_opt>>])]

(***************************************************************************)
(* StackedPlotDescriptor::Draw.  has_ratio and has_legend say whether the  *)
(* ratio_pad and legend pointers are non-null.  The result is the heap,    *)
(* the operations on the pads, the legend entries added and plot_items.    *)
(***************************************************************************)
NewStack == [type |-> "THStack", hists |-> <<>>, title |-> "",
             xaxis |-> DefaultAxis, yaxis |-> DefaultAxis]

\* for (iter = backgrounds.rbegin(); iter != backgrounds.rend(); ++iter) stack->Add(*iter)
\* Mutant: the backgrounds are added to the stack in insertion order.
StackAddLoop_Forward(stack, backgrounds, riter) ==
    [stack EXCEPT !.hists = @ \o backgrounds]

RECURSIVE StackAddLoop(_, _, _)
StackAddLoop(stack, backgrounds, riter) ==
    IF riter < 1 THEN stack
    ELSE StackAddLoop([stack EXCEPT !.hists = Append(@, backgrounds[riter])],
                      backgrounds, riter - 1)

\* for (signal : signals) DrawItem(*signal, ...)
\* Mutant: every signal is drawn as an overlay, whatever was drawn before.
RECURSIVE DrawSignalsLoop_AlwaysOverlay(_, _, _, _)
DrawSignalsLoop_AlwaysOverlay(st, this, has_ratio, i) ==
    IF i > Len(this.signals) THEN st
    ELSE LET drawn == DrawItem([st EXCEPT !.first_draw = FALSE], this.page_opt,
                               this.signals[i], this.signal_opt.draw_opt, has_ratio)
         IN DrawSignalsLoop_AlwaysOverlay([drawn EXCEPT !.first_draw = st.first_draw],
                                          this, has_ratio, i + 1)

RECURSIVE DrawSignalsLoop(_, _, _, _)
DrawSignalsLoop(st, this, has_ratio, i) ==
    IF i > Len(this.signals) THEN st
    ELSE DrawSignalsLoop(DrawItem(st, this.page_opt, this.signals[i],
                                  this.signal_opt.draw_opt, has_ratio),
                         this, has_ratio, i + 1)

AddEntry(obj, label, option) == [obj |-> obj, label |-> label, option |-> option]

\* Mutant: the entries of a list of histograms, last histogram first.
LegendEntries_Reversed(mem, hists, legend_style) ==
    [i \in 1..Len(hists) |->
        AddEntry(hists[Len(hists) + 1 - i], mem[hists[Len(hists) + 1 - i]].legend_title,
                 legend_style)]

\* the entries of a list of histograms, in the order of the list
LegendEntries(mem, hists, legend_style) ==
    [i \in 1..Len(hists) |-> AddEntry(hists[i], mem[hists[i]].legend_title, legend_style)]

\* Mutant: the stack and the sum are made without testing backgrounds.size();
\* the exception of CreateSumHistogram ends the call.
DrawBackgrounds_Unguarded(st, this, has_ratio) ==
    LET stack == <<"stack", 1>>
        made == [st EXCEPT !.heap = Store(@, stack,
                    StackAddLoop(NewStack, this.backgrounds, Len(this.backgrounds)))]
        drawn == DrawItem(made, this.page_opt, stack, this.bkg_opt.draw_opt, has_ratio)
        pushed == [drawn EXCEPT !.plot_items = Append(@, stack)]
        sum == CreateSumHistogram(pushed.heap, this.backgrounds, <<"bkg_sum_hist", 1>>)
        summed == [pushed EXCEPT !.heap = sum.heap, !.bkg_sum_hist = sum.ptr,
                                 !.thrown = sum.thrown]
    IN IF sum.thrown = NoException /\ this.bkg_unc_opt # None
       THEN LET styled == [summed EXCEPT !.heap[sum.ptr] =
                               ApplyHistOptionsEx(@, this.bkg_unc_opt)]
                band == DrawItem(styled, this.page_opt, sum.ptr,
                                 this.bkg_unc_opt.draw_opt, has_ratio)
            IN [band EXCEPT !.plot_items = Append(@, sum.ptr)]
       ELSE summed

DrawBackgrounds(st, this, has_ratio) ==
    IF Len(this.backgrounds) # 0
    THEN LET stack == <<"stack", 1>>
             made == [st EXCEPT !.heap = Store(@, stack,
                         StackAddLoop(NewStack, this.backgrounds, Len(this.backgrounds)))]
             drawn == DrawItem(made, this.page_opt, stack, this.bkg_opt.draw_opt, has_ratio)
             pushed == [drawn EXCEPT !.plot_items = Append(@, stack)]
             sum == CreateSumHistogram(pushed.heap, this.backgrounds, <<"bkg_sum_hist", 1>>)
             summed == [pushed EXCEPT !.heap = sum.heap, !.bkg_sum_hist = sum.ptr,
                                      !.thrown = sum.thrown]
         IN IF this.bkg_unc_opt # None
            THEN LET styled == [summed EXCEPT !.heap[sum.ptr] =
                                    ApplyHistOptionsEx(@, this.bkg_unc_opt)]
                     band == DrawItem(styled, this.page_opt, sum.ptr,
                                      this.bkg_unc_opt.draw_opt, has_ratio)
                 IN [band EXCEPT !.plot_items = Append(@, sum.ptr)]
            ELSE summed
    ELSE st

\* Mutant: the stored data histogram is divided by the bin width in place
\* before the graph is made from it.
DrawData_DividesInPlace(st, this, has_ratio) ==
    IF this.data # NULL
    THEN LET st0 == [st EXCEPT !.heap[this.data] = DivideByBinWidth(@)]
             data == st0.heap[this.data]
             blind_ranges == IF this.data_opt.blind THEN data.blind_ranges ELSE {}
             data_graph == <<"data_graph", 1>>
             graph == HistogramToGraph(data, this.page_opt.divide_by_bin_width, blind_ranges)
             made == [st0 EXCEPT !.heap = Store(@, data_graph,
                                                 ApplyHistOptions(graph, this.data_opt)),
                                 !.data_graph = data_graph]
             drawn == DrawItem(made, this.page_opt, data_graph, this.data_opt.draw_opt,
                               has_ratio)
         IN [drawn EXCEPT !.plot_items = Append(@, data_graph)]
    ELSE st

\* Mutant: the blind ranges of the histogram are applied whatever the options.
DrawData_AlwaysBlind(st, this, has_ratio) ==
    IF this.data # NULL
    THEN LET data == st.heap[this.data]
             blind_ranges == data.blind_ranges
             data_graph == <<"data_graph", 1>>
             graph == HistogramToGraph(data, this.page_opt.divide_by_bin_width, blind_ranges)
             made == [st EXCEPT !.heap = Store(@, data_graph,
                                                ApplyHistOptions(graph, this.data_opt)),
                                !.data_graph = data_graph]
             drawn == DrawItem(made, this.page_opt, data_graph, this.data_opt.draw_opt,
                               has_ratio)
         IN [drawn EXCEPT !.plot_items = Append(@, data_graph)]
    ELSE st

DrawData(st, this, has_ratio) ==
    IF this.data # NULL
    THEN LET data == st.heap[this.data]
             blind_ranges == IF this.data_opt.blind THEN data.blind_ranges ELSE {}
             data_graph == <<"data_graph", 1>>
             graph == HistogramToGraph(data, this.page_opt.divide_by_bin_width, blind_ranges)
             made == [st EXCEPT !.heap = Store(@, data_graph,
                                                ApplyHistOptions(graph, this.data_opt)),
                                !.data_graph = data_graph]
             drawn == DrawItem(made, this.page_opt, data_graph, this.data_opt.draw_opt,
                               has_ratio)
         IN [drawn EXCEPT !.plot_items = Append(@, data_graph)]
    ELSE st

FillLegend(st, this, has_legend) ==
    IF has_legend
    THEN LET entries ==
                (IF st.data_graph # NULL
                 THEN <<AddEntry(st.data_graph, st.heap[this.data].legend_title,
                                 this.data_opt.legend_style)>>
                 ELSE <<>>)
                \o (IF this.bkg_unc_opt # None
                    THEN <<AddEntry(st.bkg_sum_hist, this.bkg_unc_opt.legend_title,
                                    this.bkg_unc_opt.legend_style)>>
                    ELSE <<>>)
                \o LegendEntries(st.heap, this.signals, this.signal_opt.legend_style)
                \o LegendEntries(st.heap, this.backgrounds, this.bkg_opt.legend_style)
         IN [st EXCEPT
                !.legend = entries,
                !.pads = @ \o [i \in 1..Len(entries) |->
                                  [op |-> "AddEntry", obj |-> entries[i].obj]]]
    ELSE st

\* Mutant: the phase goes on with the first-draw flag of the main pad.
RatioPhase_SharedFlag(st, this) ==
    LET entered == [st EXCEPT !.pads = Append(@, [op |-> "cd", pad |-> "ratio_pad"]),
                              !.first_draw = st.first_draw]
        unc == IF this.bkg_unc_opt # None
               THEN LET ratio_unc_hist == <<"ratio_unc_hist", 1>>
                        made == [entered EXCEPT !.heap = Store(@, ratio_unc_hist,
                                    CreateNormalizedUncertaintyHistogram(
                                        entered.heap[entered.bkg_sum_hist]))]
                        drawn == DrawRatioItem(made, this.page_opt, ratio_unc_hist,
                                               this.bkg_unc_opt.draw_opt)
                    IN [drawn EXCEPT !.plot_items = Append(@, ratio_unc_hist)]
               ELSE entered
    IN IF unc.data_graph # NULL
       THEN LET ratio_graph == <<"ratio_graph", 1>>
                made == [unc EXCEPT !.heap = Store(@, ratio_graph,
                            CreateRatioGraph(unc.heap[unc.data_graph],
                                             unc.heap[unc.bkg_sum_hist]))]
                drawn == DrawRatioItem(made, this.page_opt, ratio_graph,
                                       this.data_opt.draw_opt)
            IN [drawn EXCEPT !.plot_items = Append(@, ratio_graph)]
       ELSE unc

\* the body of the ratio-pad phase: ratio_pad->cd(), a first-draw flag of its
\* own, the normalized uncertainty band, the data / background ratio
RatioPhase(st, this) ==
    LET entered == [st EXCEPT !.pads = Append(@, [op |-> "cd", pad |-> "ratio_pad"]),
                              !.first_draw = TRUE]
        unc == IF this.bkg_unc_opt # None
               THEN LET ratio_unc_hist == <<"ratio_unc_hist", 1>>
                        made == [entered EXCEPT !.heap = Store(@, ratio_unc_hist,
                                    CreateNormalizedUncertaintyHistogram(
                                        entered.heap[entered.bkg_sum_hist]))]
                        drawn == DrawRatioItem(made, this.page_opt, ratio_unc_hist,
                                               this.bkg_unc_opt.draw_opt)
                    IN [drawn EXCEPT !.plot_items = Append(@, ratio_unc_hist)]
               ELSE entered
    IN IF unc.data_graph # NULL
       THEN LET ratio_graph == <<"ratio_graph", 1>>
                made == [unc EXCEPT !.heap = Store(@, ratio_graph,
                            CreateRatioGraph(unc.heap[unc.data_graph],
                                             unc.heap[unc.bkg_sum_hist]))]
                drawn == DrawRatioItem(made, this.page_opt, ratio_graph,
                                       this.data_opt.draw_opt)
            IN [drawn EXCEPT !.plot_items = Append(@, ratio_graph)]
       ELSE unc

\* Mutant: the phase is entered only with both an uncertainty band and data.
DrawRatio_BothNeeded(st, this, has_ratio) ==
    IF has_ratio /\ st.bkg_sum_hist # NULL /\ (this.bkg_unc_opt # None /\ st.data_graph # NULL)
    THEN RatioPhase(st, this)
    ELSE st

DrawRatio(st, this, has_ratio) ==
    IF has_ratio /\ st.bkg_sum_hist # NULL /\ (this.bkg_unc_opt # None \/ st.data_graph # NULL)
    THEN RatioPhase(st, this)
    ELSE st

\* Mutant: the legend is filled after the ratio-pad phase.
Draw_LegendLast(this, mem, has_ratio, has_legend, plot_items_in) ==
    LET entry == [ heap |-> mem,
                   pads |-> << [op |-> "SetLogx", pad |-> "main_pad",
                                value |-> this.page_opt.log_x],
                               [op |-> "SetLogy", pad |-> "main_pad",
                                value |-> this.page_opt.log_y],
                               [op |-> "cd", pad |-> "main_pad"] >>,
                   first_draw |-> TRUE, bkg_sum_hist |-> NULL, data_graph |-> NULL,
                   legend |-> <<>>, plot_items |-> plot_items_in,
                   thrown |-> NoException ]
        bkg == DrawBackgrounds(entry, this, has_ratio)
        sgn == DrawSignalsLoop(bkg, this, has_ratio, 1)
        dat == DrawData(sgn, this, has_ratio)
        rat == DrawRatio(dat, this, has_ratio)
    IN FillLegend(rat, this, has_legend)

\* Mutant: the artifacts are collected in a list that starts empty.
Draw_FreshPlotItems(this, mem, has_ratio, has_legend, plot_items_in) ==
    LET entry == [ heap |-> mem,
                   pads |-> << [op |-> "SetLogx", pad |-> "main_pad",
                                value |-> this.page_opt.log_x],
                               [op |-> "SetLogy", pad |-> "main_pad",
                                value |-> this.page_opt.log_y],
                               [op |-> "cd", pad |-> "main_pad"] >>,
                   first_draw |-> TRUE, bkg_sum_hist |-> NULL, data_graph |-> NULL,
                   legend |-> <<>>, plot_items |-> <<>>,
                   thrown |-> NoException ]
        bkg == DrawBackgrounds(entry, this, has_ratio)
        sgn == DrawSignalsLoop(bkg, this, has_ratio, 1)
        dat == DrawData(sgn, this, has_ratio)
        leg == FillLegend(dat, this, has_legend)
    IN DrawRatio(leg, this, has_ratio)

Draw(this, mem, has_ratio, has_legend, plot_items_in) ==
    LET entry == [ heap |-> mem,
                   pads |-> << [op |-> "SetLogx", pad |-> "main_pad",
                                value |-> this.page_opt.log_x],
                               [op |-> "SetLogy", pad |-> "main_pad",
                                value |-> this.page_opt.log_y],
                               [op |-> "cd", pad |-> "main_pad"] >>,
                   first_draw |-> TRUE, bkg_sum_hist |-> NULL, data_graph |-> NULL,
                   legend |-> <<>>, plot_items |-> plot_items_in,
                   thrown |-> NoException ]
        bkg == DrawBackgrounds(entry, this, has_ratio)
        sgn == DrawSignalsLoop(bkg, this, has_ratio, 1)
        dat == DrawData(sgn, this, has_ratio)
        leg == FillLegend(dat, this, has_legend)
    IN DrawRatio(leg, this, has_ratio)

(***************************************************************************)
(* The caller.  It constructs one descriptor, then calls its methods in    *)
(* any order, passing histograms it owns; the artifacts of a Draw call     *)
(* live in the plot_items of that call, which the caller drops before it   *)
(* makes the next call.                                                    *)
(***************************************************************************)
SignalColors == {"kRed"}
BackgroundColors == {"kBlue"}
ScaleFactors == {2}
LegendTitles == {"process"}
CallerItem == <<"caller_item", 1>>
PlotItemsInputs == {<<CallerItem>>}

DrawArtifacts ==
    {<<"stack", 1>>, <<"bkg_sum_hist", 1>>, <<"data_graph", 1>>,
     <<"ratio_unc_hist", 1>>, <<"ratio_graph", 1>>}

\* the heap once the artifacts of the previous Draw are released
Released(mem) == Drop(mem, DrawArtifacts)

\* no object of the other components exists
OthersIdle ==
    /\ printer = None
    /\ canvas = None
    /\ output_file = <<>>
    /\ shape_sync = None
    /\ common_dirs = None
    /\ tuner = None
    /\ plot_entry = None

Init ==
    /\ OthersIdle
    /\ descriptor = None
    /\ heap = [a \in Originals |-> CallerHists[a[2]]]
    /\ call = [op |-> "none"]
    /\ thrown = NoException
    /\ pads = <<>>
    /\ legend = <<>>
    /\ plot_items = <<>>
    /\ graph_in = None
    /\ graph_out = None

Construct ==
    /\ call.op = "none"
    /\ \E opt_items \in ItemCollections :
         LET r == StackedPlotDescriptor(DefaultPage, opt_items)
         IN /\ descriptor' = r.object
            /\ thrown' = r.thrown
            /\ call' = [op |-> "StackedPlotDescriptor", opt_items |-> opt_items]
    /\ UNCHANGED <<heap, pads, legend, plot_items, graph_in, graph_out, other_vars>>

\* what a call that is not Draw leaves behind
Returned(r, c) ==
    /\ descriptor' = r.object
    /\ heap' = r.heap
    /\ thrown' = r.thrown
    /\ call' = c
    /\ pads' = <<>>
    /\ legend' = <<>>
    /\ plot_items' = <<>>
    /\ UNCHANGED <<graph_in, graph_out, other_vars>>

CallAddSignalHistogram ==
    /\ descriptor # None
    /\ Len(descriptor.signals) + Len(descriptor.backgrounds) < MaxHists
    /\ \E original_hist \in Originals, legend_title \in LegendTitles,
          color \in SignalColors, scale_factor \in ScaleFactors :
         Returned(AddSignalHistogram(descriptor, Released(heap), original_hist,
                                     legend_title, color, scale_factor),
                  [op |-> "AddSignalHistogram", original_hist |-> original_hist,
                   legend_title |-> legend_title, color |-> color,
                   scale_factor |-> scale_factor])

CallAddBackgroundHistogram ==
    /\ descriptor # None
    /\ Len(descriptor.signals) + Len(descriptor.backgrounds) < MaxHists
    /\ \E original_hist \in Originals, legend_title \in LegendTitles,
          color \in BackgroundColors :
         Returned(AddBackgroundHistogram(descriptor, Released(heap), original_hist,
                                         legend_title, color),
                  [op |-> "AddBackgroundHistogram", original_hist |-> original_hist,
                   legend_title |-> legend_title, color |-> color])

CallAddDataHistogram ==
    /\ descriptor # None
    /\ \E original_hist \in Originals, legend_title \in LegendTitles :
         Returned(AddDataHistogram(descriptor, Released(heap), original_hist, legend_title),
                  [op |-> "AddDataHistogram", original_hist |-> original_hist,
                   legend_title |-> legend_title])

CallDraw ==
    /\ descriptor # None
    /\ \E has_ratio \in BOOLEAN, has_legend \in BOOLEAN, plot_items_in \in PlotItemsInputs :
         LET r == Draw(descriptor, Released(heap), has_ratio, has_legend, plot_items_in)
         IN /\ heap' = r.heap
            /\ thrown' = r.thrown
            /\ pads' = r.pads
            /\ legend' = r.legend
            /\ plot_items' = r.plot_items
            /\ call' = [op |-> "Draw", has_ratio |-> has_ratio, has_legend |-> has_legend,
                        plot_items |-> plot_items_in]
    /\ UNCHANGED <<descriptor, graph_in, graph_out, other_vars>>

Next ==
    \/ Construct
    \/ CallAddSignalHistogram
    \/ CallAddBackgroundHistogram
    \/ CallAddDataHistogram
    \/ CallDraw

Spec == Init /\ [][Next]_vars

\* Construction and accumulation alone
NextAccumulate ==
    \/ Construct
    \/ CallAddSignalHistogram
    \/ CallAddBackgroundHistogram
    \/ CallAddDataHistogram

SpecAccumulate == Init /\ [][NextAccumulate]_vars

(***************************************************************************)
(* plotting::HistogramToGraph exercised alone, on histograms of up to      *)
(* MaxBins bins with edges on the even numbers and up to MaxBlind blind    *)
(* ranges.  The content of bin i is 3 * i * width and its error i * width. *)
(***************************************************************************)
EdgePoints == {2 * k : k \in 0..MaxBins}

\* the increasing sequence of the numbers in S
RECURSIVE Sorted(_)
Sorted(S) ==
    IF S = {} THEN <<>>
    ELSE LET m == CHOOSE v \in S : \A w \in S : v <= w
         IN <<m>> \o Sorted(S \ {m})

GraphHist(edges) ==
    LET width(i) == edges[i + 1] - edges[i]
    IN [ NewHist([i \in 1..(Len(edges) - 1) |-> 3 * i * width(i)],
                 [i \in 1..(Len(edges) - 1) |-> i * i * width(i) * width(i)],
                 FALSE, FALSE, FALSE, 1200, "x", "y", {})
         EXCEPT !.edges = edges ]

GraphHists == {GraphHist(Sorted(S)) : S \in {T \in SUBSET EdgePoints : Cardinality(T) >= 2}}

BlindCandidates ==
    { MakeRange(0, 2, "Both"), MakeRange(0, 2, "MinIncluded"), MakeRange(2, 2, "Both"),
      MakeRange(3, 5, "Both"), MakeRange(2, 4, "None"), MakeRange(4, 7, "MaxIncluded") }

BlindRangeSets == {B \in SUBSET BlindCandidates : Cardinality(B) <= MaxBlind}

InitGraph ==
    /\ OthersIdle
    /\ descriptor = None
    /\ heap = [a \in Originals |-> CallerHists[a[2]]]
    /\ call = [op |-> "none"]
    /\ thrown = NoException
    /\ pads = <<>>
    /\ legend = <<>>
    /\ plot_items = <<>>
    /\ graph_in \in [hist : GraphHists, divide_by_bin_width : BOOLEAN,
                      blind_ranges : BlindRangeSets]
    /\ graph_out = None

CallHistogramToGraph ==
    /\ graph_out = None
    /\ graph_out' = HistogramToGraph(graph_in.hist, graph_in.divide_by_bin_width,
                                      graph_in.blind_ranges)
    /\ UNCHANGED <<descriptor, heap, call, thrown, pads, legend, plot_items, graph_in,
                   other_vars>>

SpecGraph == InitGraph /\ [][CallHistogramToGraph]_vars

(***************************************************************************)
(* root_ext::PdfPrinter (Print/include/PdfPrinter.h).  The canvas holds    *)
(* its title, the primitives drawn on it and the operations the call made  *)
(* last did on it.  output_file is the sequence of TCanvas::Print calls:   *)
(* the name given (a sequence of fragments), the option string and the     *)
(* primitives on the canvas at that time.  A name ending in "[" opens the  *)
(* file, a name ending in "]" closes it, any other name writes one page.   *)
(***************************************************************************)
MaxPages == 3        \* pages printed by Print and PrintStack

OutputFileNames == {"plots.pdf"}
PageTitles == {"page A", "page B"}

\* the value of the page counter n_pages of a new printer
InitialPageCount == 0

\* the pages given to Print: title, layout.has_title and number of regions
PrintPages == [title : PageTitles, has_title : BOOLEAN, regions : 0..1]

\* the descriptors given to PrintStack
StackDescriptors ==
    [title : PageTitles, signals : {<<>>, <<OrigAddr(1)>>}, backgrounds : {<<>>},
     data : {NULL, OrigAddr(2)}]

\* StackedPlotDescriptor::NeedDraw
NeedDraw(this) == HasPrintableContent(this)

\* TCanvas::Print
CanvasPrint(file, cv, name, options) ==
    Append(file, [name |-> name, options |-> options, primitives |-> cv.primitives])

\* one operation on the canvas: cd, SetTitle, Clear, Draw, or a Draw of
\* something on it
CanvasDo(cv, op) ==
    [ title |-> IF op[1] = "SetTitle" THEN op[2] ELSE cv.title,
      primitives |-> CASE op[1] = "Clear" -> <<>>
                       [] op[1] = "DrawOn" -> Append(cv.primitives, op[2])
                       [] OTHER -> cv.primitives,
      ops |-> Append(cv.ops, op) ]

RECURSIVE CanvasDoAll(_, _)
CanvasDoAll(cv, ops) ==
    IF ops = <<>> THEN cv ELSE CanvasDoAll(CanvasDo(cv, Head(ops)), Tail(ops))

\* PdfPrinter::PdfPrinter
PdfPrinter(output_file_name, file) ==
    LET cv == [title |-> "", primitives |-> <<>>, ops |-> <<>>]
    IN [ object |-> [output_file_name |-> output_file_name, n_pages |-> InitialPageCount,
                     alive |-> TRUE],
         canvas |-> cv,
         file |-> CanvasPrint(file, cv, <<output_file_name, "[">>, <<>>) ]

\* PdfPrinter::Print
PrintPage(this, cv, file, page) ==
    LET cv1 == CanvasDoAll(cv, <<<<"cd">>, <<"SetTitle", page.title>>>>
                   \o (IF page.has_title THEN <<<<"DrawOn", <<"title", page.title>>>>>>
                       ELSE <<>>)
                   \o [k \in 1..(2 * page.regions) |->
                         IF k % 2 = 1 THEN <<"cd">>
                         ELSE <<"DrawOn", <<"region", k \div 2>>>>]
                   \o <<<<"Draw">>>>)
    IN [ object |-> [this EXCEPT !.n_pages = @ + 1],
         canvas |-> cv1,
         file |-> CanvasPrint(file, cv1, <<this.output_file_name>>,
                              <<"Title: ", page.title>>) ]

\* Mutant: PrintStack does not test the descriptor for content.
PrintStack_Unguarded(this, cv, file, stackDescriptor, is_last) ==
    LET cv1 == CanvasDoAll(cv, << <<"cd">>, <<"SetTitle", stackDescriptor.title>>,
                                  <<"Clear">>,
                                  <<"DrawOn", <<"stack", stackDescriptor.title>>>>,
                                  <<"Draw">> >>)
    IN [ object |-> [this EXCEPT !.n_pages = @ + 1],
         canvas |-> cv1,
         file |-> CanvasPrint(file, cv1, <<this.output_file_name>>,
                              <<"Title: ", stackDescriptor.title>>) ]

\* PdfPrinter::PrintStack
PrintStack(this, cv, file, stackDescriptor, is_last) ==
    IF ~NeedDraw(stackDescriptor)
    THEN [object |-> this, canvas |-> cv, file |-> file]
    ELSE LET cv1 == CanvasDoAll(cv, << <<"cd">>, <<"SetTitle", stackDescriptor.title>>,
                                       <<"Clear">>,
                                       <<"DrawOn", <<"stack", stackDescriptor.title>>>>,
                                       <<"Draw">> >>)
         IN [ object |-> [this EXCEPT !.n_pages = @ + 1],
              canvas |-> cv1,
              file |-> CanvasPrint(file, cv1, <<this.output_file_name>>,
                                   <<"Title: ", stackDescriptor.title>>) ]

\* Mutant: the destructor prints the cleared canvas whatever the page count.
PdfPrinterDestructor_AlwaysFlush(this, cv, file) ==
    LET cv1 == CanvasDo(cv, <<"Clear">>)
    IN [ object |-> [this EXCEPT !.alive = FALSE],
         canvas |-> cv1,
         file |-> CanvasPrint(CanvasPrint(file, cv1, <<this.output_file_name>>, <<>>),
                              cv1, <<this.output_file_name, "]">>, <<>>) ]

\* PdfPrinter::~PdfPrinter
PdfPrinterDestructor(this, cv, file) ==
    LET flush == this.n_pages > 1
        cv1 == IF flush THEN CanvasDo(cv, <<"Clear">>) ELSE cv
        file1 == IF flush THEN CanvasPrint(file, cv1, <<this.output_file_name>>, <<>>)
                 ELSE file
    IN [ object |-> [this EXCEPT !.alive = FALSE],
         canvas |-> cv1,
         file |-> CanvasPrint(file1, cv1, <<this.output_file_name, "]">>, <<>>) ]

\* the plotting components are idle
PlotIdle ==
    /\ descriptor = None
    /\ heap = [a \in Originals |-> CallerHists[a[2]]]
    /\ thrown = NoException
    /\ pads = <<>>
    /\ legend = <<>>
    /\ plot_items = <<>>
    /\ graph_in = None
    /\ graph_out = None

plot_vars == <<descriptor, heap, thrown, pads, legend, plot_items, graph_in, graph_out>>

\* no object of any component exists
InitIdle ==
    /\ PlotIdle
    /\ OthersIdle
    /\ call = [op |-> "none"]

InitPrinter == InitIdle

\* what a call on the printer leaves behind; the operations recorded on the
\* canvas are those of that call
PrinterReturned(r, c) ==
    /\ printer' = r.object
    /\ canvas' = r.canvas
    /\ output_file' = r.file
    /\ call' = c
    /\ UNCHANGED <<plot_vars, shape_sync, common_dirs, tuner, plot_entry>>

NewPdfPrinter ==
    /\ printer = None
    /\ \E output_file_name \in OutputFileNames :
         PrinterReturned(PdfPrinter(output_file_name, output_file),
                         [op |-> "PdfPrinter", output_file_name |-> output_file_name])

CallPrint ==
    /\ printer # None
    /\ printer.alive
    /\ printer.n_pages < MaxPages
    /\ \E page \in PrintPages :
         PrinterReturned(PrintPage(printer, [canvas EXCEPT !.ops = <<>>], output_file, page),
                         [op |-> "Print", page |-> page])

CallPrintStack ==
    /\ printer # None
    /\ printer.alive
    /\ printer.n_pages < MaxPages
    /\ \E stackDescriptor \in StackDescriptors, is_last \in BOOLEAN :
         PrinterReturned(PrintStack(printer, [canvas EXCEPT !.ops = <<>>], output_file,
                                    stackDescriptor, is_last),
                         [op |-> "PrintStack", stackDescriptor |-> stackDescriptor,
                          is_last |-> is_last])

DeletePdfPrinter ==
    /\ printer # None
    /\ printer.alive
    /\ PrinterReturned(PdfPrinterDestructor(printer, [canvas EXCEPT !.ops = <<>>],
                                            output_file),
                       [op |-> "~PdfPrinter"])

NextPrinter ==
    \/ NewPdfPrinter
    \/ CallPrint
    \/ CallPrintStack
    \/ DeletePdfPrinter

SpecPrinter == InitPrinter /\ [][NextPrinter]_vars

(***************************************************************************)
(* ShapeSync (Instruments/source/ShapeSync.cxx): the directories common to *)
(* the inputs.  A Source is its configured name and its map of directory   *)
(* name -> histograms; a std::map is a function and is walked in the order *)
(* of its keys.                                                            *)
(***************************************************************************)
MaxInputs == 3       \* input files given to ShapeSync

SourceNames == <<"A", "B">>        \* in the order of std::string
DirNames == {"d1", "d2"}

\* the sources that can be loaded: every name with every set of directories
Sources ==
    [name : Elems(SourceNames), histograms : {[d \in D |-> {"h"}] : D \in SUBSET DirNames}]

InputLists == UNION {[1..n -> Sources] : n \in 0..MaxInputs}

MsgTooFewInputs == "At least 2 inputs should be provided."

\* tools::collect_map_keys
collect_map_keys(map) == DOMAIN map

\* std::map::begin: the least key of a map of source names
MapBegin(items) ==
    SourceNames[CHOOSE k \in DOMAIN SourceNames :
                    /\ SourceNames[k] \in DOMAIN items
                    /\ \A j \in 1..(k - 1) : SourceNames[j] \notin DOMAIN items]

\* ShapeSync::ShapeSync
ShapeSync(loaded) ==
    IF Len(loaded) < 2
    THEN [thrown |-> MsgTooFewInputs, object |-> None]
    ELSE [thrown |-> NoException, object |-> [inputs |-> loaded]]

\* ShapeSync::CollectCommonItems
CollectCommonItems(items) ==
    LET first_input == MapBegin(items)
    IN {item \in items[first_input] :
           \A input \in DOMAIN items \ {first_input} : item \in items[input]}

\* the loop of GetCommonDirs: dir_names[input.name] = ... for inputs n, n+1, ...
RECURSIVE DirNamesLoop(_, _, _)
DirNamesLoop(inputs, n, dir_names) ==
    IF n > Len(inputs) THEN dir_names
    ELSE DirNamesLoop(inputs, n + 1,
                      [name \in DOMAIN dir_names \cup {inputs[n].name} |->
                          IF name = inputs[n].name
                          THEN collect_map_keys(inputs[n].histograms)
                          ELSE dir_names[name]])

\* ShapeSync::GetCommonDirs
GetCommonDirs(this) ==
    CollectCommonItems(DirNamesLoop(this.inputs, 1, <<>>))

NewShapeSync ==
    /\ shape_sync = None
    /\ \E loaded \in InputLists :
         LET r == ShapeSync(loaded)
         IN /\ shape_sync' = r.object
            /\ thrown' = r.thrown
            /\ call' = [op |-> "ShapeSync", input |-> loaded]
    /\ UNCHANGED <<descriptor, heap, pads, legend, plot_items, graph_in, graph_out,
                   printer, canvas, output_file, common_dirs, tuner, plot_entry>>

CallGetCommonDirs ==
    /\ shape_sync # None
    /\ common_dirs' = GetCommonDirs(shape_sync)
    /\ call' = [op |-> "GetCommonDirs"]
    /\ UNCHANGED <<plot_vars, printer, canvas, output_file, shape_sync, tuner, plot_entry>>

NextSync ==
    \/ NewShapeSync
    \/ CallGetCommonDirs

SpecSync == InitIdle /\ [][NextSync]_vars

(***************************************************************************)
(* root_ext::HistogramRangeTuner (Print/include/RootPrintTools.h).  The    *)
(* histograms added have up to MaxBins bins with edges on the even numbers *)
(* and contents 0, 5 or 9.  The calls FindMinLimitX(hist, bool) of Add     *)
(* name the one function FindMinLimitX(hist).                              *)
(***************************************************************************)
NumericMax == 1000000        \* std::numeric_limits<ValueType>::max()
NumericLowest == -1000000    \* std::numeric_limits<ValueType>::lowest()

TunerContents == {0, 5, 9}

TunerHists ==
    UNION {{[GraphHist(Sorted(S)) EXCEPT !.content = c] :
               c \in [1..(Cardinality(S) - 1) -> TunerContents]} :
           S \in {T \in SUBSET EdgePoints : Cardinality(T) >= 2}}

\* HistogramRangeTuner::FindMinLimitX
RECURSIVE FindMinLimitXFrom(_, _)
FindMinLimitXFrom(h, i) ==
    IF i > GetNbinsX(h) THEN NumericMax
    ELSE IF GetBinContent(h, i) # 0 THEN GetBinLowEdge(h, i)
    ELSE FindMinLimitXFrom(h, i + 1)

FindMinLimitX(h) == FindMinLimitXFrom(h, 1)

\* HistogramRangeTuner::HistogramRangeTuner
HistogramRangeTuner ==
    [x_min |-> NumericMax, x_max |-> NumericLowest,
     y_min |-> NumericMax, y_max |-> NumericLowest]

\* HistogramRangeTuner::Add
TunerAdd(this, hist, consider_overflow_and_underflow) ==
    LET t1 == [this EXCEPT !.x_min = Min(@, FindMinLimitX(hist))]
        t2 == [t1 EXCEPT !.x_max = Max(@, FindMinLimitX(hist))]
        t3 == [t2 EXCEPT !.x_min = Min(@, FindMinLimitX(hist))]
    IN [t3 EXCEPT !.x_min = Min(@, FindMinLimitX(hist))]

NewHistogramRangeTuner ==
    /\ tuner = None
    /\ tuner' = HistogramRangeTuner
    /\ call' = [op |-> "HistogramRangeTuner"]
    /\ UNCHANGED <<plot_vars, printer, canvas, output_file, shape_sync, common_dirs,
                   plot_entry>>

CallTunerAdd ==
    /\ tuner # None
    /\ \E hist \in TunerHists, consider_overflow_and_underflow \in BOOLEAN :
         /\ tuner' = TunerAdd(tuner, hist, consider_overflow_and_underflow)
         /\ call' = [op |-> "Add", hist |-> hist,
                     consider_overflow_and_underflow |-> consider_overflow_and_underflow]
    /\ UNCHANGED <<plot_vars, printer, canvas, output_file, shape_sync, common_dirs,
                   plot_entry>>

NextTuner ==
    \/ NewHistogramRangeTuner
    \/ CallTunerAdd

SpecTuner == InitIdle /\ [][NextTuner]_vars

(***************************************************************************)
(* analysis::SyncPlotEntry and its operator >> (Instruments/include/       *)
(* SyncPlotsConfig.h).  A line is the sequence of the fields               *)
(* SplitValueList finds in it.  The fields are a name, an unsigned         *)
(* integer, a real number and a condition; numbers are in tenths.          *)
(***************************************************************************)
MaxFields == 8       \* fields of a line given to operator >>

Fields == {"pt", "10", "0.5", "pt>20"}

Lines == UNION {[1..n -> Fields] : n \in 0..MaxFields}

\* the text of the exception operator >> throws (%1% is the line), and the
\* exception of std::vector::at
MsgInvalidPlotEntry == "Invalid plot entry '%1%'."
StdOutOfRange == "std::out_of_range"

\* TryParse<size_t>: whether the field is an unsigned integer, and its value
TryParse(str) == IF str = "10" THEN [ok |-> TRUE, value |-> 10] ELSE [ok |-> FALSE]

\* Parse<Range<double>> of "min max": two numbers, the first not above the second
ParseRange(min_str, max_str) ==
    LET value == [str \in {"10", "0.5"} |-> IF str = "10" THEN 100 ELSE 5]
    IN IF /\ min_str \in DOMAIN value
          /\ max_str \in DOMAIN value
          /\ value[min_str] <= value[max_str]
       THEN [ok |-> TRUE, value |-> [min |-> value[min_str], max |-> value[max_str]]]
       ELSE [ok |-> FALSE]

\* Condition::Condition
DefaultCondition == [always_true |-> TRUE, is_integer |-> TRUE]

\* operator >> (std::istream&, Condition&) on one field: a field starting
\* with '1' is the condition that always holds; a field without "<", ">"
\* or "=" has no valid comparison and fails
ParseCondition(str) ==
    CASE str = "10" -> [ok |-> TRUE, value |-> [always_true |-> TRUE, is_integer |-> TRUE]]
      [] str = "pt>20" ->
            [ok |-> TRUE, value |-> [always_true |-> FALSE, is_integer |-> TRUE, entry |-> "pt",
                                     expr |-> ">", value_int |-> 20]]
      [] OTHER -> [ok |-> FALSE]

\* SyncPlotEntry::SyncPlotEntry
SyncPlotEntry ==
    [names |-> <<"", "">>, n_bins |-> 0, x_range |-> None,
     conditions |-> <<DefaultCondition, DefaultCondition>>]

\* the conditions of operator >>: fields n and n + 1 of params, where there
\* are such fields, go to conditions k and k + 1
RECURSIVE ReadConditions(_, _, _, _)
ReadConditions(params, entry, n, k) ==
    IF k > 2 \/ n > Len(params)
    THEN [thrown |-> NoException, entry |-> entry]
    ELSE LET cond == ParseCondition(params[n])
         IN IF ~cond.ok
            THEN [thrown |-> MsgInvalidPlotEntry,
                  entry |-> [entry EXCEPT !.conditions[k] = [always_true |-> FALSE,
                                                             is_integer |-> TRUE]]]
            ELSE ReadConditions(params, [entry EXCEPT !.conditions[k] = cond.value],
                                n + 1, k + 1)

\* the range and what follows it in operator >>, with n the first field of
\* the range
ReadRange(params, entry, n) ==
    IF n + 1 > Len(params)
    THEN [thrown |-> StdOutOfRange, entry |-> entry]
    ELSE LET x_range == ParseRange(params[n], params[n + 1])
         IN IF ~x_range.ok
            THEN [thrown |-> MsgInvalidPlotEntry, entry |-> entry]
            ELSE ReadConditions(params, [entry EXCEPT !.x_range = x_range.value], n + 2, 1)

\* operator >> (std::istream&, SyncPlotEntry&)
ReadEntry(params, entry) ==
    IF Len(params) >= 4 /\ Len(params) <= 7
    THEN LET e0 == [entry EXCEPT !.names[1] = params[1]]
             n_bins == TryParse(params[2])
         IN IF n_bins.ok
            THEN ReadRange(params, [e0 EXCEPT !.n_bins = n_bins.value,
                                              !.names[2] = e0.names[1]], 3)
            ELSE LET e1 == [e0 EXCEPT !.names[2] = params[2]]
                     parsed == TryParse(params[3])
                 IN IF ~parsed.ok
                    THEN [thrown |-> MsgInvalidPlotEntry, entry |-> e1]
                    ELSE ReadRange(params, [e1 EXCEPT !.n_bins = parsed.value], 4)
    ELSE [thrown |-> MsgInvalidPlotEntry, entry |-> entry]

\* one line is read into one new entry (SyncPlotConfig makes an entry per line)
CallReadEntry ==
    /\ plot_entry = None
    /\ \E line \in Lines :
         LET r == ReadEntry(line, SyncPlotEntry)
         IN /\ plot_entry' = r.entry
            /\ thrown' = r.thrown
            /\ call' = [op |-> ">>", line |-> line]
    /\ UNCHANGED <<descriptor, heap, pads, legend, plot_items, graph_in, graph_out,
                   printer, canvas, output_file, shape_sync, common_dirs, tuner>>

SpecEntry == InitIdle /\ [][CallReadEntry]_vars

(***************************************************************************)
(* Properties.                                                             *)
(***************************************************************************)
MandatorySections == {"sgn_hist", "bkg_hist", "data_hist"}
ConfigurationErrors == {MsgNoSignalOpt, MsgNoBkgOpt, MsgNoDataOpt, MsgNoUncOpt}

\* the constructor has just returned or thrown
AfterConstructor == call.op = "StackedPlotDescriptor"

\* the background section of the mapping enables uncertainty drawing
EnablesUnc(opt_items) == DrawUnc(HistOptions(opt_items["bkg_hist"]))

\* the histograms a descriptor points to
OwnedHists(d) ==
    Elems(d.signals) \cup Elems(d.backgrounds) \cup (IF d.data # NULL THEN {d.data} ELSE {})

\* C1: a constructor call whose mapping lacks one of "sgn_hist", "bkg_hist",
\* "data_hist" throws a configuration error and leaves no descriptor; with the
\* three present and uncertainty drawing not enabled by the background
\* options it succeeds.
C1_MandatorySections ==
    AfterConstructor =>
        /\ ~(MandatorySections \subseteq DOMAIN call.opt_items) =>
                thrown \in ConfigurationErrors /\ descriptor = None
        /\ (MandatorySections \subseteq DOMAIN call.opt_items
              /\ ~EnablesUnc(call.opt_items)) =>
                thrown = NoException /\ descriptor # None

C1_Witness ==
    /\ AfterConstructor
    /\ DOMAIN call.opt_items = {"sgn_hist", "bkg_hist", "bkg_unc"}
    /\ thrown = MsgNoDataOpt
    /\ descriptor = None

\* C2: when the background options enable uncertainty drawing and the section
\* they name is absent the constructor throws a configuration error; every
\* descriptor holds uncertainty options exactly when its background options
\* enable uncertainty drawing.
C2_UncertaintySection ==
    /\ (AfterConstructor /\ MandatorySections \subseteq DOMAIN call.opt_items
          /\ EnablesUnc(call.opt_items)
          /\ HistOptions(call.opt_items["bkg_hist"]).unc_hist \notin DOMAIN call.opt_items) =>
            thrown = MsgNoUncOpt /\ descriptor = None
    /\ descriptor # None =>
            (descriptor.bkg_unc_opt # None <=> DrawUnc(descriptor.bkg_opt))

C2_Witness ==
    /\ AfterConstructor
    /\ DOMAIN call.opt_items = MandatorySections
    /\ EnablesUnc(call.opt_items)
    /\ thrown = MsgNoUncOpt

\* C3: AddDataHistogram on a descriptor that holds a data histogram throws and
\* changes neither the descriptor (lists, data pointer, page options) nor any
\* histogram it points to; a data histogram, once held, is the one held ever
\* after, unchanged.
C3_DuplicateData ==
    [][ (descriptor # None /\ descriptor.data # NULL) =>
            /\ descriptor'.data = descriptor.data
            /\ heap'[descriptor.data] = heap[descriptor.data]
            /\ call'.op = "AddDataHistogram" =>
                    /\ thrown' = MsgDuplicateData
                    /\ descriptor' = descriptor
                    /\ \A a \in OwnedHists(descriptor) : heap'[a] = heap[a] ]_vars

C3_Witness ==
    /\ call.op = "AddDataHistogram"
    /\ thrown = MsgDuplicateData
    /\ descriptor.data # NULL
    /\ heap[descriptor.data].content # heap[call.original_hist].content
    /\ descriptor.signals # <<>>
    /\ descriptor.backgrounds # <<>>

\* the number of objects of a kind allocated on the heap
Count(kind) == Cardinality({a \in DOMAIN heap : a[1] = kind})

\* the addresses <<kind, 1>>, ..., <<kind, n>>, in the order of allocation
InOrder(kind, n) == [i \in 1..n |-> <<kind, i>>]

StackAddr == <<"stack", 1>>
BkgSumAddr == <<"bkg_sum_hist", 1>>
DataGraphAddr == <<"data_graph", 1>>

AfterDraw == call.op = "Draw"

\* C4: Draw adds the backgrounds to the stack in the reverse of the order in
\* which AddBackgroundHistogram stored them: the last stored first.
C4_StackReversed ==
    (AfterDraw /\ Count("background") > 0) =>
        /\ StackAddr \in DOMAIN heap
        /\ descriptor.backgrounds = InOrder("background", Count("background"))
        /\ heap[StackAddr].hists =
                [k \in 1..Count("background") |->
                    <<"background", Count("background") + 1 - k>>]

C4_Witness ==
    /\ AfterDraw
    /\ Count("background") = 3
    /\ heap[<<"background", 1>>].content # heap[<<"background", 3>>].content
    /\ heap[StackAddr].hists[1] = <<"background", 3>>

\* C5: the sum histogram of Draw has in each bin the sum of the contents of
\* the stored backgrounds, summing the backgrounds in any other order gives
\* the same contents, and Draw leaves every stored background as it was.
RECURSIVE SumOfContents(_, _, _)
SumOfContents(hists, bin, k) ==
    IF k = 0 THEN 0 ELSE heap[hists[k]].content[bin] + SumOfContents(hists, bin, k - 1)

OrdersOf(n) ==
    {p \in [1..n -> 1..n] : \A i, j \in 1..n : p[i] = p[j] => i = j}

C5_SumContents ==
    (AfterDraw /\ descriptor.backgrounds # <<>>) =>
        /\ BkgSumAddr \in DOMAIN heap
        /\ \A bin \in 1..GetNbinsX(heap[BkgSumAddr]) :
              heap[BkgSumAddr].content[bin] =
                  SumOfContents(descriptor.backgrounds, bin, Len(descriptor.backgrounds))
        /\ \A p \in OrdersOf(Len(descriptor.backgrounds)) :
              LET permuted == [i \in 1..Len(descriptor.backgrounds) |->
                                  descriptor.backgrounds[p[i]]]
                  sum == CreateSumHistogram(heap, permuted, <<"permuted_sum", 1>>)
              IN sum.heap[sum.ptr].content = heap[BkgSumAddr].content

C5_SumHistogram ==
    /\ []C5_SumContents
    /\ [][ call'.op = "Draw" =>
              \A b \in Elems(descriptor.backgrounds) : heap'[b] = heap[b] ]_vars

C5_Witness ==
    /\ AfterDraw
    /\ Len(descriptor.backgrounds) = 2
    /\ heap[descriptor.backgrounds[1]].content = <<10, 20>>
    /\ heap[descriptor.backgrounds[2]].content = <<8, 8>>
    /\ heap[BkgSumAddr].content = <<18, 28>>

\* C6: the graph of HistogramToGraph has one point for each bin whose interval
\* [low edge, next low edge) overlaps no blind range, and no other: the points
\* are those bins in bin order, with the bin's centre and content; their
\* number is the number of bins minus the number of overlapping bins.
\* Two intervals with integer ends overlap iff they share a multiple of 1/2;
\* p stands for the point p/2.
InBin2(h, bin, p) == 2 * h.edges[bin] <= p /\ p < 2 * h.edges[bin + 1]

InRange2(r, p) ==
    /\ 2 * r.min < p \/ (2 * r.min = p /\ r.boundaries \in {"MinIncluded", "Both"})
    /\ p < 2 * r.max \/ (p = 2 * r.max /\ r.boundaries \in {"MaxIncluded", "Both"})

BinIsBlind(h, bin, blind_ranges) ==
    \E r \in blind_ranges, p \in 0..(4 * MaxBins + 16) : InBin2(h, bin, p) /\ InRange2(r, p)

BlindBins(h, blind_ranges) == {bin \in 1..GetNbinsX(h) : BinIsBlind(h, bin, blind_ranges)}

C6_GraphPoints ==
    graph_out # None =>
        LET h == graph_in.hist
            kept == Sorted((1..GetNbinsX(h)) \ BlindBins(h, graph_in.blind_ranges))
            div(bin) == IF graph_in.divide_by_bin_width THEN GetBinWidth(h, bin) ELSE 1
        IN /\ graph_out.n = GetNbinsX(h) - Cardinality(BlindBins(h, graph_in.blind_ranges))
           /\ graph_out.x = [k \in 1..Len(kept) |-> (h.edges[kept[k]] + h.edges[kept[k] + 1]) \div 2]
           /\ graph_out.y = [k \in 1..Len(kept) |-> h.content[kept[k]] \div div(kept[k])]
           /\ \A k \in 1..Len(graph_out.y) : graph_out.y[k] # 0
           /\ Len(graph_out.eyl) = graph_out.n /\ Len(graph_out.eyh) = graph_out.n
           /\ Len(graph_out.exl) = graph_out.n /\ Len(graph_out.exh) = graph_out.n

C6_Witness ==
    /\ graph_out # None
    /\ graph_in.hist.edges = <<0, 2>>
    /\ graph_in.blind_ranges = {MakeRange(0, 2, "MinIncluded")}
    /\ graph_out.n = 0

\* C7: the legend entries Draw adds are, in this order, the data graph (if a
\* data histogram is held), the background sum (if uncertainty options are
\* held), the signals in insertion order, the backgrounds in insertion
\* order; without a legend none is added.
ExpectedLegendObjects ==
    (IF descriptor.data # NULL THEN <<DataGraphAddr>> ELSE <<>>)
    \o (IF descriptor.bkg_unc_opt # None
        THEN <<IF Count("background") > 0 THEN BkgSumAddr ELSE NULL>>
        ELSE <<>>)
    \o InOrder("signal", Count("signal"))
    \o InOrder("background", Count("background"))

C7_LegendOrder ==
    AfterDraw =>
        [i \in 1..Len(legend) |-> legend[i].obj] =
            IF call.has_legend THEN ExpectedLegendObjects ELSE <<>>

C7_Witness ==
    /\ AfterDraw
    /\ call.has_legend
    /\ Len(legend) = 5
    /\ legend[1].obj = DataGraphAddr
    /\ legend[2].obj = BkgSumAddr
    /\ legend[3].obj = <<"signal", 1>>
    /\ legend[4].obj = <<"background", 1>>
    /\ legend[5].obj = <<"background", 2>>
    /\ heap[<<"background", 1>>].content # heap[<<"background", 2>>].content

\* the options of a page that UpdatePageOptions takes from a histogram
HistPageOptions(page_opt) ==
    [ log_x |-> page_opt.log_x, log_y |-> page_opt.log_y, y_max_sf |-> page_opt.y_max_sf,
      x_title |-> page_opt.x_title, y_title |-> page_opt.y_title,
      divide_by_bin_width |-> page_opt.divide_by_bin_width ]

\* the same options as a histogram states them
PageOptionsOf(hist) ==
    [ log_x |-> hist.use_log_x, log_y |-> hist.use_log_y, y_max_sf |-> hist.max_y_sf,
      x_title |-> hist.x_title, y_title |-> hist.y_title,
      divide_by_bin_width |-> hist.divide_by_bin_width ]

AddOps == {"AddSignalHistogram", "AddBackgroundHistogram", "AddDataHistogram"}

C9_OriginalsUntouched ==
    \A a \in Originals : a \in DOMAIN heap /\ heap[a] = CallerHists[a[2]]

C9_Witness ==
    /\ call.op = "AddSignalHistogram"
    /\ thrown = NoException
    /\ call.original_hist = OrigAddr(2)
    /\ heap[descriptor.signals[Len(descriptor.signals)]].content = <<16, 16>>
    /\ heap[descriptor.signals[Len(descriptor.signals)]].legend_title = "process"
    /\ heap[OrigAddr(2)].content = <<16, 32>>

\* C10: HasPrintableContent is true exactly when an Add* call has stored a
\* histogram, false on a descriptor just constructed, and stays true.
C10_Content ==
    descriptor # None =>
        /\ HasPrintableContent(descriptor) <=>
                Count("signal") + Count("background") + Count("data") > 0
        /\ AfterConstructor => ~HasPrintableContent(descriptor)

C10_PrintableContent ==
    /\ []C10_Content
    /\ [][ (descriptor # None /\ HasPrintableContent(descriptor)) =>
                HasPrintableContent(descriptor') ]_vars

C10_Witness ==
    /\ descriptor # None
    /\ descriptor.signals = <<>>
    /\ descriptor.backgrounds = <<>>
    /\ descriptor.data # NULL
    /\ HasPrintableContent(descriptor)

\* the sections whose absence makes the constructor fail on a mapping
MissingSections(opt_items) ==
    (MandatorySections \ DOMAIN opt_items)
    \cup (IF "bkg_hist" \in DOMAIN opt_items /\ EnablesUnc(opt_items)
             /\ HistOptions(opt_items["bkg_hist"]).unc_hist \notin DOMAIN opt_items
          THEN {HistOptions(opt_items["bkg_hist"]).unc_hist}
          ELSE {})

\* the role whose options the constructor misses first: it looks for the
\* signal, background and data sections in this order, then for the
\* uncertainty section if the background options enable it
FirstMissing(opt_items) ==
    IF "sgn_hist" \notin DOMAIN opt_items THEN "signal"
    ELSE IF "bkg_hist" \notin DOMAIN opt_items THEN "background"
    ELSE IF "data_hist" \notin DOMAIN opt_items THEN "data"
    ELSE IF MissingSections(opt_items) # {} THEN "uncertainties"
    ELSE "none"

\* a message tells that the options of a role were not found
Identifies(msg, role) ==
    /\ role \in Elems(Words(msg))
    /\ role = "background" => "uncertainties" \notin Elems(Words(msg))

\* C11 as claimed: the message of the exception for a missing section includes
\* the name of a section that is missing.
C11_NamesMissingSection ==
    (AfterConstructor /\ thrown # NoException) =>
        \E section \in MissingSections(call.opt_items) : section \in Elems(Words(thrown))

\* C11 as amended: the message names the role (signal, background, data,
\* background uncertainties) of the first section found missing, and no other
\* role, so that the four cases are told apart by the message alone; it does
\* not include the name of the section.
C11_NamesMissingRole ==
    AfterConstructor =>
        /\ thrown = NoException <=> FirstMissing(call.opt_items) = "none"
        /\ \A role \in {"signal", "background", "data", "uncertainties"} :
              Identifies(thrown, role) <=> role = FirstMissing(call.opt_items)
        /\ \A section \in SectionNames : section \notin Elems(Words(thrown))

C11_Witness ==
    /\ AfterConstructor
    /\ DOMAIN call.opt_items = {"sgn_hist", "data_hist", "bkg_unc"}
    /\ thrown = MsgNoBkgOpt
    /\ "background" \in Elems(Words(thrown))
    /\ "bkg_hist" \notin Elems(Words(thrown))

\* the pad selected when the operation at position k of a log was made
CurrentPad(p, k) ==
    LET cds == {j \in 1..k : p[j].op = "cd"}
    IN IF cds = {} THEN "none"
       ELSE p[CHOOSE j \in cds : \A i \in cds : i <= j].pad

\* the items drawn on a pad, in the order of drawing
DrawsOn(p, pad) ==
    LET idx == Sorted({k \in DOMAIN p : p[k].op = "Draw" /\ CurrentPad(p, k) = pad})
    IN [i \in 1..Len(idx) |-> p[idx[i]]]

RatioPhaseRun == \E k \in DOMAIN pads : pads[k] = [op |-> "cd", pad |-> "ratio_pad"]

RatioPhaseDue ==
    /\ call.has_ratio
    /\ Count("background") > 0
    /\ descriptor.bkg_unc_opt # None \/ descriptor.data # NULL

\* C12: Draw runs the ratio-pad phase iff it is given a ratio pad, a
\* background was added and uncertainty options are held or a data histogram
\* is; the phase draws one or two items on the ratio pad, and without it
\* nothing is drawn there.
C12_RatioPhase ==
    AfterDraw =>
        /\ RatioPhaseRun <=> RatioPhaseDue
        /\ RatioPhaseRun => Len(DrawsOn(pads, "ratio_pad")) \in 1..2
        /\ ~RatioPhaseRun =>
              /\ DrawsOn(pads, "ratio_pad") = <<>>
              /\ <<"ratio_unc_hist", 1>> \notin DOMAIN heap
              /\ <<"ratio_graph", 1>> \notin DOMAIN heap

C12_Witness ==
    /\ AfterDraw
    /\ call.has_ratio
    /\ descriptor.bkg_unc_opt = None
    /\ descriptor.data # NULL
    /\ Len(DrawsOn(pads, "ratio_pad")) = 1
    /\ DrawsOn(pads, "ratio_pad")[1].item = <<"ratio_graph", 1>>

\* the draw option Draw passes for an item of the main pad: that of its role
RoleDrawOpt(d, item) ==
    CASE item[1] = "stack" -> d.bkg_opt.draw_opt
      [] item[1] = "bkg_sum_hist" -> d.bkg_unc_opt.draw_opt
      [] item[1] = "signal" -> d.signal_opt.draw_opt
      [] item[1] = "data_graph" -> d.data_opt.draw_opt

\* the axes of an item of the main pad before Draw draws it: those it has
\* for a stored histogram, those of the first background for the sum (its
\* copy), those of a new object for the stack and the data graph
AxesBefore(item) ==
    LET of(h) == [xaxis |-> h.xaxis, yaxis |-> h.yaxis]
    IN CASE item[1] = "signal" -> of(heap[item])
         [] item[1] = "bkg_sum_hist" -> of(heap[descriptor.backgrounds[1]])
         [] OTHER -> [xaxis |-> DefaultAxis, yaxis |-> DefaultAxis]

\* the item Draw draws first on the main pad
FirstMainItem(d) ==
    IF d.backgrounds # <<>> THEN StackAddr
    ELSE IF d.signals # <<>> THEN d.signals[1]
    ELSE DataGraphAddr

\* C13: of the items a Draw call draws on the main pad, the first (the stack,
\* else the first signal, else the data graph) is drawn with the draw option
\* of its role and gets the y axis of the page options; every other one is
\* drawn with "SAME" before the draw option of its role and keeps its axes.
C13_FirstDraw ==
    [][ call'.op = "Draw" =>
          LET drawn == DrawsOn(pads', "main_pad")
          IN \A k \in DOMAIN drawn :
                LET item == drawn[k].item
                IN IF k = 1
                   THEN /\ item = FirstMainItem(descriptor)
                        /\ drawn[k].opt = <<RoleDrawOpt(descriptor, item)>>
                        /\ heap'[item].yaxis.title = descriptor.page_opt.y_title
                        /\ heap'[item].yaxis.title_size = descriptor.page_opt.axis_title_sizes.y
                        /\ heap'[item].yaxis.title_offset =
                               descriptor.page_opt.axis_title_offsets.y
                   ELSE /\ drawn[k].opt = <<"SAME", RoleDrawOpt(descriptor, item)>>
                        /\ heap'[item].xaxis = AxesBefore(item).xaxis
                        /\ heap'[item].yaxis = AxesBefore(item).yaxis ]_vars

C13_Witness ==
    /\ AfterDraw
    /\ Len(DrawsOn(pads, "main_pad")) = 4
    /\ DrawsOn(pads, "main_pad")[1] = [op |-> "Draw", item |-> StackAddr, opt |-> <<"HIST">>]
    /\ DrawsOn(pads, "main_pad")[2].opt = <<"SAME", "e2">>
    /\ DrawsOn(pads, "main_pad")[3].opt = <<"SAME", "HIST">>
    /\ DrawsOn(pads, "main_pad")[4].opt = <<"SAME", "PE0">>
    /\ heap[StackAddr].yaxis.title # ""
    /\ heap[DataGraphAddr].yaxis = DefaultAxis

\* the options with which the signals were drawn on the main pad, in the
\* order of drawing
SignalDraws ==
    LET drawn == DrawsOn(pads, "main_pad")
        idx == Sorted({k \in DOMAIN drawn : drawn[k].item[1] = "signal"})
    IN [i \in 1..Len(idx) |-> drawn[idx[i]]]

\* C14 as claimed: Draw draws every signal as an overlay, whatever was added.
C14_SignalsAlwaysOverlay ==
    AfterDraw =>
        \A i \in DOMAIN SignalDraws :
            SignalDraws[i].opt = <<"SAME", descriptor.signal_opt.draw_opt>>

\* C14 as amended: Draw draws the signals in insertion order, each as an
\* overlay, except the first signal when no background was added: that one
\* is drawn with the plain option and establishes the axes of the main pad.
C14_SignalsOverlayUnlessFirst ==
    AfterDraw =>
        /\ [i \in DOMAIN SignalDraws |-> SignalDraws[i].item] = descriptor.signals
        /\ \A i \in DOMAIN SignalDraws :
              IF descriptor.backgrounds = <<>> /\ i = 1
              THEN /\ SignalDraws[i].opt = <<descriptor.signal_opt.draw_opt>>
                   /\ heap[descriptor.signals[i]].yaxis.title = descriptor.page_opt.y_title
              ELSE SignalDraws[i].opt = <<"SAME", descriptor.signal_opt.draw_opt>>

C14_Witness ==
    /\ AfterDraw
    /\ descriptor.backgrounds = <<>>
    /\ Len(descriptor.signals) = 2
    /\ descriptor.data # NULL
    /\ SignalDraws[1].opt = <<"HIST">>
    /\ SignalDraws[2].opt = <<"SAME", "HIST">>
    /\ heap[descriptor.signals[1]].yaxis.title # ""
    /\ heap[descriptor.signals[2]].yaxis = DefaultAxis

\* C15: the data graph of Draw has a point for every bin of the data
\* histogram when the data options do not enable blinding, whatever blind
\* ranges the histogram has; when they do, it has a point for exactly the
\* bins that overlap none of these ranges.
C15_DataBlinding ==
    (AfterDraw /\ descriptor.data # NULL) =>
        /\ DataGraphAddr \in DOMAIN heap
        /\ LET h == heap[descriptor.data]
               omitted == IF descriptor.data_opt.blind
                          THEN BlindBins(h, h.blind_ranges)
                          ELSE {}
               kept == Sorted((1..GetNbinsX(h)) \ omitted)
           IN /\ heap[DataGraphAddr].n = GetNbinsX(h) - Cardinality(omitted)
              /\ heap[DataGraphAddr].x =
                    [k \in 1..Len(kept) |-> (h.edges[kept[k]] + h.edges[kept[k] + 1]) \div 2]

\* blinding is off, the histogram has a blind range over a bin, no bin is omitted
C15_Witness ==
    /\ AfterDraw
    /\ descriptor.data # NULL
    /\ ~descriptor.data_opt.blind
    /\ BlindBins(heap[descriptor.data], heap[descriptor.data].blind_ranges) = {1}
    /\ heap[DataGraphAddr].n = 2

\* the x and y axis records the page options of a descriptor prescribe
PageXAxis(page_opt) ==
    [ title |-> page_opt.x_title,
      title_size |-> page_opt.axis_title_sizes.x,
      title_offset |-> page_opt.axis_title_offsets.x,
      label_size |-> page_opt.axis_label_sizes.x,
      label_offset |-> page_opt.axis_label_offsets.x ]

PageYAxis(page_opt) ==
    [ title |-> page_opt.y_title,
      title_size |-> page_opt.axis_title_sizes.y,
      title_offset |-> page_opt.axis_title_offsets.y,
      label_size |-> page_opt.axis_label_sizes.y,
      label_offset |-> page_opt.axis_label_offsets.y ]

SuppressedAxis ==
    [title |-> "", title_size |-> 0, title_offset |-> 0, label_size |-> 0, label_offset |-> 0]

\* C16: the first item Draw draws on the main pad has its x axis title empty
\* and its x title and label sizes and offsets zero iff Draw was given a
\* ratio pad, and else has them from the page options; its y axis is from
\* the page options in both cases.
C16_MainPadAxes ==
    (AfterDraw /\ DrawsOn(pads, "main_pad") # <<>>) =>
        LET first == heap[DrawsOn(pads, "main_pad")[1].item]
        IN /\ first.xaxis = SuppressedAxis <=> call.has_ratio
           /\ ~call.has_ratio => first.xaxis = PageXAxis(descriptor.page_opt)
           /\ first.yaxis = PageYAxis(descriptor.page_opt)

C16_Witness ==
    /\ AfterDraw
    /\ call.has_ratio
    /\ ~RatioPhaseRun
    /\ DrawsOn(pads, "main_pad") # <<>>
    /\ descriptor.page_opt.x_title = "m_B"
    /\ heap[DrawsOn(pads, "main_pad")[1].item].xaxis = SuppressedAxis
    /\ heap[DrawsOn(pads, "main_pad")[1].item].yaxis.title = "dN/dm"

\* the axis records DrawRatioItem prescribes for the ratio pad
RatioXAxis(page_opt) ==
    [ title |-> page_opt.x_title,
      title_size |-> page_opt.axis_title_sizes.x * page_opt.ratio_pad_size_sf,
      title_offset |-> page_opt.axis_title_offsets.x,
      label_size |-> page_opt.axis_label_sizes.x * page_opt.ratio_pad_size_sf,
      label_offset |-> page_opt.axis_label_offsets.x ]

RatioYAxis(page_opt) ==
    [ title |-> page_opt.ratio_y_title,
      title_size |-> page_opt.ratio_y_title_size * page_opt.ratio_pad_size_sf,
      title_offset |-> page_opt.ratio_y_title_offset,
      label_size |-> page_opt.ratio_y_label_size * page_opt.ratio_pad_size_sf,
      label_offset |-> page_opt.ratio_y_label_offset,
      n_divisions |-> page_opt.ratio_n_div_y ]

\* the items of the ratio pad with the draw options of their roles, in the
\* order the phase draws them
ExpectedRatioItems ==
    (IF descriptor.bkg_unc_opt # None
     THEN << [item |-> <<"ratio_unc_hist", 1>>, opt |-> descriptor.bkg_unc_opt.draw_opt] >>
     ELSE <<>>)
    \o (IF descriptor.data # NULL
        THEN << [item |-> <<"ratio_graph", 1>>, opt |-> descriptor.data_opt.draw_opt] >>
        ELSE <<>>)

\* C17: on the ratio pad the normalized uncertainty band (if uncertainty
\* options are held) is drawn before the ratio graph (if data is held); the
\* first of the two drawn is drawn with its plain option and gets the ratio
\* axes, although the first-draw flag of the main pad is cleared by then; the
\* second is drawn with "SAME" before its option and keeps its axes.
C17_RatioFirstDraw ==
    (AfterDraw /\ RatioPhaseRun) =>
        LET drawn == DrawsOn(pads, "ratio_pad")
        IN /\ DrawsOn(pads, "main_pad") # <<>>
           /\ [k \in DOMAIN drawn |-> drawn[k].item] =
                 [k \in DOMAIN ExpectedRatioItems |-> ExpectedRatioItems[k].item]
           /\ \A k \in DOMAIN drawn :
                 IF k = 1
                 THEN /\ drawn[k].opt = <<ExpectedRatioItems[k].opt>>
                      /\ heap[drawn[k].item].xaxis = RatioXAxis(descriptor.page_opt)
                      /\ heap[drawn[k].item].yaxis = RatioYAxis(descriptor.page_opt)
                 ELSE /\ drawn[k].opt = <<"SAME", ExpectedRatioItems[k].opt>>
                      /\ heap[drawn[k].item].xaxis = DefaultAxis
                      /\ heap[drawn[k].item].yaxis = DefaultAxis

C17_Witness ==
    /\ AfterDraw
    /\ RatioPhaseRun
    /\ DrawsOn(pads, "ratio_pad") =
          << [op |-> "Draw", item |-> <<"ratio_unc_hist", 1>>, opt |-> <<"e2">>],
             [op |-> "Draw", item |-> <<"ratio_graph", 1>>, opt |-> <<"SAME", "PE0">>] >>
    /\ heap[<<"ratio_unc_hist", 1>>].yaxis.title = "Ratio"
    /\ heap[<<"ratio_graph", 1>>].yaxis = DefaultAxis

\* what Draw appends to plot_items, in the order in which it appends
ExpectedPlotItems ==
    (IF descriptor.backgrounds # <<>> THEN <<StackAddr>> ELSE <<>>)
    \o (IF descriptor.backgrounds # <<>> /\ descriptor.bkg_unc_opt # None
        THEN <<BkgSumAddr>> ELSE <<>>)
    \o (IF descriptor.data # NULL THEN <<DataGraphAddr>> ELSE <<>>)
    \o (IF RatioPhaseDue /\ descriptor.bkg_unc_opt # None
        THEN << <<"ratio_unc_hist", 1>> >> ELSE <<>>)
    \o (IF RatioPhaseDue /\ descriptor.data # NULL
        THEN << <<"ratio_graph", 1>> >> ELSE <<>>)

\* C18: after Draw plot_items is the list it was given followed by the
\* stack, the background sum (with uncertainty options), the data graph, the
\* normalized uncertainty histogram and the ratio graph, each if it was
\* made and drawn; every object Draw made and drew is alive and in the list.
C18_PlotItems ==
    AfterDraw =>
        /\ plot_items = call.plot_items \o ExpectedPlotItems
        /\ \A k \in DOMAIN pads :
              (pads[k].op = "Draw" /\ pads[k].item \in DrawArtifacts) =>
                  pads[k].item \in Elems(plot_items) /\ pads[k].item \in DOMAIN heap

C18_Witness ==
    /\ AfterDraw
    /\ call.plot_items = <<CallerItem>>
    /\ plot_items = <<CallerItem, StackAddr, BkgSumAddr, DataGraphAddr,
                      <<"ratio_unc_hist", 1>>, <<"ratio_graph", 1>> >>

\* the step of Draw an operation of the log belongs to: 1 selecting the main
\* pad, 2 drawing a main-pad item, 3 filling the legend, 4 selecting the
\* ratio pad, 5 drawing a ratio-pad item; 0 is the set-up of the main pad
Step(e) ==
    CASE e.op = "cd" /\ e.pad = "main_pad" -> 1
      [] e.op = "Draw" /\ e.item[1] \in {"stack", "bkg_sum_hist", "signal", "data_graph"} -> 2
      [] e.op = "AddEntry" -> 3
      [] e.op = "cd" /\ e.pad = "ratio_pad" -> 4
      [] e.op = "Draw" /\ e.item[1] \in {"ratio_unc_hist", "ratio_graph"} -> 5
      [] OTHER -> 0

\* the items of the main pad in the order Draw draws them
ExpectedMainItems ==
    (IF descriptor.backgrounds # <<>> THEN <<StackAddr>> ELSE <<>>)
    \o (IF descriptor.backgrounds # <<>> /\ descriptor.bkg_unc_opt # None
        THEN <<BkgSumAddr>> ELSE <<>>)
    \o descriptor.signals
    \o (IF descriptor.data # NULL THEN <<DataGraphAddr>> ELSE <<>>)

\* C19: the operations of one Draw call come in this order: the main pad is
\* selected before anything is drawn; the main-pad items are drawn, the
\* stack, the uncertainty band, the signals in insertion order, the data
\* graph; then the legend is filled; then the ratio pad is selected, at most
\* once, and after that only ratio items are drawn, on the ratio pad.
C19_Sequence ==
    AfterDraw =>
        /\ \A i, j \in DOMAIN pads : i < j => Step(pads[i]) <= Step(pads[j])
        /\ Cardinality({k \in DOMAIN pads : Step(pads[k]) = 1}) = 1
        /\ Cardinality({k \in DOMAIN pads : Step(pads[k]) = 4}) <= 1
        /\ \A k \in DOMAIN pads :
              /\ Step(pads[k]) = 2 => CurrentPad(pads, k) = "main_pad"
              /\ Step(pads[k]) = 5 => CurrentPad(pads, k) = "ratio_pad"
        /\ [k \in DOMAIN DrawsOn(pads, "main_pad") |-> DrawsOn(pads, "main_pad")[k].item]
              = ExpectedMainItems
        /\ Cardinality({k \in DOMAIN pads : Step(pads[k]) = 3}) = Len(legend)

C19_Witness ==
    /\ AfterDraw
    /\ [k \in DOMAIN pads |-> Step(pads[k])] = <<0, 0, 1, 2, 2, 2, 2, 3, 3, 3, 3, 4, 5, 5>>
    /\ ExpectedMainItems = <<StackAddr, BkgSumAddr, <<"signal", 1>>, DataGraphAddr>>

\* C20: CreateSumHistogram of an empty list throws, and no Draw call, with
\* or without ratio pad, legend, uncertainty options, backgrounds, throws
\* it: Draw makes the sum exactly when a background is stored.
C20_EmptySumUnreachable ==
    /\ CreateSumHistogram(heap, <<>>, BkgSumAddr).thrown = MsgEmptySum
    /\ CreateSumHistogram(heap, <<>>, BkgSumAddr).heap = heap
    /\ AfterDraw =>
          /\ thrown = NoException
          /\ BkgSumAddr \in DOMAIN heap <=> descriptor.backgrounds # <<>>

C20_Witness ==
    /\ AfterDraw
    /\ descriptor.backgrounds = <<>>
    /\ descriptor.bkg_unc_opt # None
    /\ descriptor.data # NULL
    /\ call.has_ratio /\ call.has_legend
    /\ thrown = NoException
    /\ BkgSumAddr \notin DOMAIN heap

\* the histogram the Add* call made last has stored
StoredByCall ==
    CASE call.op = "AddSignalHistogram" -> descriptor.signals[Len(descriptor.signals)]
      [] call.op = "AddBackgroundHistogram" ->
            descriptor.backgrounds[Len(descriptor.backgrounds)]
      [] call.op = "AddDataHistogram" -> descriptor.data

\* the contents and the squared errors a histogram stored by an Add* call is
\* to have: those of the original, divided by the bin width (non-data roles,
\* flagged histograms only), then multiplied by the scale factor (signals)
PreparedBins(orig, op, scale_factor) ==
    LET width(i) == IF op # "AddDataHistogram" /\ orig.divide_by_bin_width
                    THEN orig.edges[i + 1] - orig.edges[i] ELSE 1
        sf == IF op = "AddSignalHistogram" THEN scale_factor ELSE 1
    IN [ content |-> [i \in DOMAIN orig.content |-> (orig.content[i] \div width(i)) * sf],
         sumw2 |-> [i \in DOMAIN orig.sumw2 |->
                       (orig.sumw2[i] \div (width(i) * width(i))) * sf * sf] ]

OpsAt(ops, op) == {k \in DOMAIN ops : ops[k][1] = op}

\* C22: PrintStack on a descriptor with no signal, no background and no data
\* prints nothing, does nothing on the canvas and leaves the page counter
\* alone; on a descriptor with content it clears the canvas once, then has
\* the descriptor drawn exactly once, prints exactly one page, holding that
\* drawing only, and adds one to the page counter.
C22_PrintStack ==
    [][call'.op = "PrintStack" =>
         LET d == call'.stackDescriptor
             ops == canvas'.ops
         IN IF Len(d.signals) = 0 /\ Len(d.backgrounds) = 0 /\ d.data = NULL
            THEN /\ output_file' = output_file
                 /\ ops = <<>>
                 /\ canvas'.primitives = canvas.primitives
                 /\ canvas'.title = canvas.title
                 /\ printer'.n_pages = printer.n_pages
            ELSE /\ Cardinality(OpsAt(ops, "Clear")) = 1
                 /\ Cardinality(OpsAt(ops, "DrawOn")) = 1
                 /\ \A c \in OpsAt(ops, "Clear"), w \in OpsAt(ops, "DrawOn") :
                       c < w /\ ops[w][2] = <<"stack", d.title>>
                 /\ output_file' = Append(output_file,
                                          [name |-> <<printer.output_file_name>>,
                                           options |-> <<"Title: ", d.title>>,
                                           primitives |-> << <<"stack", d.title>> >>])
                 /\ printer'.n_pages = printer.n_pages + 1]_vars

C22_Witness ==
    /\ call.op = "PrintStack"
    /\ call.stackDescriptor.data # NULL
    /\ printer.n_pages = 2
    /\ Len(output_file) = 3
    /\ Len(output_file[2].primitives) = 2
    /\ output_file[3].primitives = << <<"stack", call.stackDescriptor.title>> >>

\* the entries of the output file that are pages
PagesOf(file) == {k \in DOMAIN file : Len(file[k].name) = 1}

\* the entries of the output file that are the marker: the file name + bracket
MarkersOf(file, bracket) == {k \in DOMAIN file : Len(file[k].name) = 2 /\ file[k].name[2] = bracket}

\* the output file of printer p: nothing when there is no printer; else the
\* open marker first and once, the close marker last and once when the
\* printer is destroyed and never before, and as many pages as the page
\* counter says, flushed more once the printer is destroyed
FileShape(p, file, flushed) ==
    IF p = None THEN file = <<>>
    ELSE /\ MarkersOf(file, "[") = {1}
         /\ file[1].name[1] = p.output_file_name
         /\ MarkersOf(file, "]") = IF p.alive THEN {} ELSE {Len(file)}
         /\ \A k \in PagesOf(file) : file[k].name = <<p.output_file_name>>
         /\ Cardinality(PagesOf(file)) = p.n_pages + (IF p.alive THEN 0 ELSE flushed)

\* a step of the printer: the file only grows, by one page for a Print, by
\* one page for a PrintStack of a descriptor with content, by flushed pages
\* for the destructor and by none otherwise
LifetimeStep(flushed) ==
    LET d == call'.stackDescriptor
        due == CASE call'.op = "Print" -> 1
                 [] call'.op = "PrintStack" ->
                      IF Len(d.signals) = 0 /\ Len(d.backgrounds) = 0 /\ d.data = NULL
                      THEN 0 ELSE 1
                 [] call'.op = "~PdfPrinter" -> flushed
                 [] OTHER -> 0
    IN /\ Len(output_file') >= Len(output_file)
       /\ SubSeq(output_file', 1, Len(output_file)) = output_file
       /\ Cardinality(PagesOf(output_file')) = Cardinality(PagesOf(output_file)) + due
       /\ FileShape(printer', output_file', flushed)

\* C27 as stated: one open marker at construction, one page per Print and
\* per PrintStack with content and no other page, one close marker at
\* destruction; the pages written are as many as the page counter.
C27_OnePagePerCall == [][LifetimeStep(0)]_vars

\* C27: as stated, except that the destructor of a printer whose page
\* counter exceeds one writes one more page, of the cleared canvas, before
\* the close marker; until then the pages written are as many as the page
\* counter.
C27_Lifetime ==
    [][/\ LifetimeStep(IF printer # None /\ printer.n_pages > 1 THEN 1 ELSE 0)
       /\ (call'.op = "~PdfPrinter" /\ printer.n_pages > 1) =>
             output_file'[Len(output_file') - 1].primitives = <<>>]_vars

C27_Witness ==
    /\ printer # None
    /\ ~printer.alive
    /\ printer.n_pages = 2
    /\ Len(output_file) = 5
    /\ output_file[2].primitives = << <<"stack", "page A">> >>
    /\ output_file[3].options = <<"Title: ", "page B">>
    /\ output_file[4].primitives = <<>>
    /\ output_file[5].name = <<"plots.pdf", "]">>

\* C23: the data graph Draw produces has its contents and errors divided by
\* the bin width exactly when the data histogram itself is flagged for
\* division, whatever other histograms were added, before it or after it.
C23_DataGraphDivision ==
    (AfterDraw /\ descriptor.data # NULL /\ DataGraphAddr \in DOMAIN heap) =>
        LET data == heap[descriptor.data]
            own == HistogramToGraph(data, data.divide_by_bin_width,
                                    IF descriptor.data_opt.blind
                                    THEN data.blind_ranges ELSE {})
        IN /\ heap[DataGraphAddr].y = own.y
           /\ heap[DataGraphAddr].eyl = own.eyl
           /\ heap[DataGraphAddr].eyh = own.eyh

\* the first item drawn on pad has got the x-axis title of the page options
XTitleOn(pad) ==
    /\ DrawsOn(pads, pad) # <<>>
    /\ heap[DrawsOn(pads, pad)[1].item].xaxis.title = descriptor.page_opt.x_title

\* C24: a Draw that draws an item on the main pad establishes the x-axis
\* title of the page options on exactly one pad: on the main pad when it is
\* given no ratio pad, on the ratio pad when it is given one.
C24_XTitleOnOnePad ==
    (AfterDraw /\ DrawsOn(pads, "main_pad") # <<>>) =>
        /\ XTitleOn("main_pad") <=> ~call.has_ratio
        /\ XTitleOn("ratio_pad") <=> call.has_ratio

\* the objects Draw has drawn on the main pad: the items of its Draw calls
\* and the histograms of a stack among them
DrawnOnMainPad ==
    LET items == {DrawsOn(pads, "main_pad")[k].item : k \in DOMAIN DrawsOn(pads, "main_pad")}
    IN items \cup UNION {Elems(heap[a].hists) : a \in {b \in items : b = StackAddr}}

\* C25: every entry Draw adds to the legend refers to an object that exists
\* and that the same Draw has drawn on the main pad; the entry of the
\* background uncertainty is added only when the sum histogram was made and
\* drawn as the band, never with a null object.
C25_LegendObjectsDrawn ==
    AfterDraw =>
        \A i \in DOMAIN legend :
            /\ legend[i].obj # NULL
            /\ legend[i].obj \in DOMAIN heap
            /\ legend[i].obj \in DrawnOnMainPad

\* a histogram with the axes ROOT creates it with
WithoutAxes(h) == [h EXCEPT !.xaxis = DefaultAxis, !.yaxis = DefaultAxis]

\* the heap as the Add* calls alone leave it: no artifact of a Draw, and the
\* axes of the stored histograms as they were copied
BeforeAnyDraw(mem, d) ==
    [a \in DOMAIN Released(mem) |-> IF a \in OwnedHists(d) THEN WithoutAxes(mem[a]) ELSE mem[a]]

\* what the Draw made last has issued is what the first Draw on the same
\* accumulated state issues: the operations on the pads and the legend, the
\* legend entries, the plot_items and the artifacts made
SameAsFirstDraw ==
    AfterDraw =>
        LET first == Draw(descriptor, BeforeAnyDraw(heap, descriptor), call.has_ratio,
                          call.has_legend, call.plot_items)
        IN /\ pads = first.pads
           /\ legend = first.legend
           /\ plot_items = first.plot_items
           /\ thrown = first.thrown
           /\ \A a \in DrawArtifacts :
                 /\ a \in DOMAIN heap <=> a \in DOMAIN first.heap
                 /\ a \in DOMAIN heap => heap[a] = first.heap[a]

\* C26 as stated: Draw leaves the descriptor and every histogram it holds as
\* they were, and issues what a first Draw on the same state issues.
C26_DrawChangesNothing ==
    /\ []SameAsFirstDraw
    /\ [][call'.op = "Draw" =>
            /\ descriptor' = descriptor
            /\ \A a \in OwnedHists(descriptor) : a \in DOMAIN heap' /\ heap'[a] = heap[a]]_vars

\* C26: Draw leaves the descriptor (lists, data pointer, page and role
\* options) as it was and every histogram it holds too, except for the axes
\* of the stored histogram it draws first on the main pad, which it sets; it
\* issues what a first Draw on the same accumulated state issues.
C26_DrawRepeatable ==
    /\ []SameAsFirstDraw
    /\ [][call'.op = "Draw" =>
            /\ descriptor' = descriptor
            /\ \A a \in OwnedHists(descriptor) :
                  /\ a \in DOMAIN heap'
                  /\ WithoutAxes(heap'[a]) = WithoutAxes(heap[a])
                  /\ heap'[a] # heap[a] =>
                        /\ a = DrawsOn(pads', "main_pad")[1].item
                        /\ heap'[a].yaxis = PageYAxis(descriptor.page_opt)]_vars

\* a second Draw in a row, with the same arguments, of a descriptor whose
\* first signal is drawn first and has its axes set
C26_Witness ==
    /\ AfterDraw
    /\ call.has_legend
    /\ ~call.has_ratio
    /\ Count("background") = 0
    /\ Count("signal") = 2
    /\ descriptor.data # NULL
    /\ heap[<<"signal", 1>>].xaxis.title = descriptor.page_opt.x_title
    /\ heap[<<"signal", 2>>].xaxis = DefaultAxis
    /\ Len(legend) = 3

\* C28: GetCommonDirs returns exactly the directory names present in the
\* histogram map of every input, for every list of two inputs or more,
\* inputs of one configured name included.
C28_CommonDirs ==
    call.op = "GetCommonDirs" =>
        common_dirs = {d \in DirNames :
                          \A n \in DOMAIN shape_sync.inputs :
                              d \in DOMAIN shape_sync.inputs[n].histograms}

\* the bins of a histogram that are not empty
NonEmptyBins(h) == {i \in 1..GetNbinsX(h) : GetBinContent(h, i) # 0}

\* the range of tuner t covers histogram h: its first non-empty bin starts
\* and its last non-empty bin ends within the x range, and every non-zero
\* content is within the y range
Covers(t, h) ==
    \A i \in NonEmptyBins(h) :
        /\ t.x_min <= GetBinLowEdge(h, i)
        /\ t.x_max >= GetBinLowEdge(h, i) + GetBinWidth(h, i)
        /\ t.y_min <= GetBinContent(h, i)
        /\ t.y_max >= GetBinContent(h, i)

\* C29: after an Add the range of the tuner covers the histogram added, and
\* it covers what it covered before: the range never shrinks, so it covers
\* every histogram added so far.
C29_RangeCovers ==
    [][call'.op = "Add" =>
         /\ Covers(tuner', call'.hist)
         /\ tuner'.x_min <= tuner.x_min
         /\ tuner'.x_max >= tuner.x_max
         /\ tuner'.y_min <= tuner.y_min
         /\ tuner'.y_max >= tuner.y_max]_vars

\* the entry a line of one or two names (names), bin count, two range
\* bounds and conds conditions stands for, every field used
EntryOf(line, names, conds) ==
    [ names |-> IF names = 1 THEN <<line[1], line[1]>> ELSE <<line[1], line[2]>>,
      n_bins |-> TryParse(line[names + 1]).value,
      x_range |-> ParseRange(line[names + 2], line[names + 3]).value,
      conditions |-> [k \in 1..2 |-> IF k <= conds
                                     THEN ParseCondition(line[names + 3 + k]).value
                                     ELSE DefaultCondition] ]

\* C30: operator >> on a line either accepts it, and then the entry is made
\* of all the fields of the line (one or two names, the bin count, the two
\* range bounds, no to two conditions), or rejects it with the exception
\* "Invalid plot entry"; a line of fewer than 4 or more than 7 fields is
\* rejected; no other exception leaves it.
C30_AcceptsWholeLineOrRejects ==
    call.op = ">>" =>
        /\ thrown \in {NoException, MsgInvalidPlotEntry}
        /\ (Len(call.line) < 4 \/ Len(call.line) > 7) => thrown # NoException
        /\ thrown = NoException =>
              \E names \in 1..2, conds \in 0..2 :
                  /\ Len(call.line) = names + 3 + conds
                  /\ (names = 1) = TryParse(call.line[2]).ok
                  /\ plot_entry = EntryOf(call.line, names, conds)

====
